---- MODULE Spec2Model ----
(***************************************************************************)
(* Model of the package manager's installer (package-manager/src/plan.rs   *)
(* and package-manager/src/commands/install.rs): the single-flight         *)
(* download cache, the concurrent install tasks of execute_plan, the       *)
(* lifecycle scripts, the bin setup and the plan snapshot of install.      *)
(*                                                                         *)
(* The file system is modelled by `store` (.xmas/store/<id>), `dirs`       *)
(* (the directories under node_modules, keyed by their path segments),     *)
(* `bins` (node_modules/.bin) and `snapshot` (node_modules/.xmas/plan.json)*)
(* and survives from one run of install to the next; everything else is    *)
(* the state of one process and is reset by NewRun.                        *)
(***************************************************************************)
EXTENDS Integers, Sequences, FiniteSets, TLC

VARIABLES
    plan,        \* Plan.trees: node (path of names from a tree root) -> Dependency
    manifest,    \* package.json requirements: set of [name, kind, range]
    disallow,    \* config.disallow_install_scripts
    store,       \* .xmas/store: id -> [content, complete]
    dirs,        \* node_modules: path -> [id, files, markers]
    bins,        \* node_modules/.bin: set of command names
    snapshot,    \* node_modules/.xmas/plan.json: {} or {plan}
    run,         \* number of the current run of install (process)
    pc,          \* position of install()
    queued,      \* tree roots execute_plan has queued
    senders,     \* live clones of the channel Sender
    chan,        \* JoinHandles in the channel
    warm,        \* nodes whose warmup task called download_package_shared
    task,        \* install tasks: node -> [pc, prefix]
    flight,      \* CACHE: key -> [dep, pc, attempt] (the shared future)
    pump,        \* keys whose stream task still holds its permit
    permits,     \* available permits of the semaphore S
    netCalls,    \* id -> HTTP requests sent in this run
    linked,      \* nodes hardlink_dir ran for in this run
    execResult,  \* result of execute_plan in this run
    result,      \* result of install in this run
    prevResult,  \* result of the previous run of install
    workStack,   \* exec_install_scripts: work_stack
    treesDone,   \* trees whose scripts install has been through
    curDir,      \* exec_install_scripts_in: dir (<<>> when not in a package)
    curNode,     \* node popped from work_stack
    pending,     \* scripts of the package at curDir still to run
    visits,      \* log: [node, dir] per call of exec_install_scripts_in
    scriptLog,   \* log: [visit, dir, script, code] per script executed
    cmd,         \* args.cmd: "install", "update" or "why"
    immutable,   \* args.immutable
    registry,    \* the versions the registry publishes: set of Dependency
    lockfile,    \* xmas.lock: [exists, entries]
    graph,       \* Graph.relations of the running command: set of <<req, dep>>
    storage,     \* .xmas/store, node_modules/.xmas and node_modules/.bin exist
    before,      \* [storage, lockfile] as the running command found them
    buildStack,  \* build_trees: nodes of the trees still to unroll
    target,      \* cmd_why: [name, version] (version 0 for none)
    queue,       \* cmd_why: queue
    seen,        \* cmd_why: seen
    expanded,    \* cmd_why: log of the pairs whose requesters were looked up
    vtable,      \* vsys: the FsVTable in use: "default", "read_only" or "deny_all"
    disk,        \* vsys: the host file system: path -> [kind, len, mode, owner, target]
    handle,      \* vsys: the FsHandle open() returned: [open, path, read, write, append]
    fsResult,    \* vsys: [status, data, text] the last call returned
    net,         \* Permissions.net: [kind, items]
    host,        \* the host check_net was called with
    netResult,   \* what check_net returned ("none" before the call)
    tasks,       \* TaskQueueInner.tasks: the tasks in the Injector, oldest first
    waker,       \* TaskQueueInner.waker: 0 for None, n for the waker of the n-th listen
    wakerLock,   \* holder of the Mutex around waker: "free", "listen" or "push"
    pushPc,      \* each thread in push: [pc, seen], seen the listen calls begun when it pushed
    listenPc,    \* position of the thread in listen
    registered,  \* number of calls of listen so far
    woken,       \* log of the wakers wake() was called on
    pollPc,      \* position of the thread in poll
    worker,      \* poll: the local Worker the batch was stolen into
    pendingVec,  \* poll: pending
    madeProgress,\* poll: made_progress
    pollResult,  \* the last poll: [value, left, before, ready], what it returned, the
                 \* queue as it left it and the tasks completed before and in it
    completed,   \* log of the tasks whose future returned Ready
    strongCount, \* Arc::strong_count of ContextOwner.ctx
    owners,      \* the clones of the ContextOwner: clone -> position in drop
    dropCalls,   \* number of calls of rt.drop_context
    cleanLog     \* log: [run, result] per call of cmd_clean

vars == <<plan, manifest, disallow, store, dirs, bins, snapshot, run, pc, queued,
          senders, chan, warm, task, flight, pump, permits, netCalls, linked, execResult, result, prevResult, workStack,
          treesDone, curDir, curNode, pending, visits, scriptLog,
          cmd, immutable, registry, lockfile, graph, storage, before, buildStack,
          target, queue, seen, expanded,
          vtable, disk, handle, fsResult, net, host, netResult,
          tasks, waker, wakerLock, pushPc, listenPc, registered, woken, pollPc,
          worker, pendingVec, madeProgress, pollResult, completed,
          strongCount, owners, dropCalls, cleanLog>>

\* the variables install, update and why leave alone: those of the crates beside
\* the package manager and the log of cmd_clean
vsysVars == <<vtable, disk, handle, fsResult>>
permVars == <<net, host, netResult>>
wakeVars == <<waker, wakerLock, pushPc, listenPc, registered, woken>>
pollVars == <<pollPc, worker, pendingVec, madeProgress, pollResult, completed>>
queueVars == <<tasks, wakeVars, pollVars>>
ownerVars == <<strongCount, owners, dropCalls>>
cleanVars == <<cleanLog>>
crateVars == <<vsysVars, permVars, queueVars, ownerVars, cleanVars>>

fsVars == <<store, dirs, bins, snapshot>>
argVars == <<cmd, immutable, registry, target>>
whyVars == <<queue, seen, expanded>>
resolveVars == <<argVars, lockfile, graph, storage, before, buildStack, whyVars>>
inputVars == <<plan, manifest, disallow, resolveVars, crateVars>>
scriptVars == <<workStack, treesDone, curDir, curNode, pending, visits, scriptLog>>
execVars == <<queued, senders, chan, warm, task>>
cacheVars == <<flight, pump, permits, netCalls>>

----------------------------------------------------------------------------
(* Bounds of the model *)

MaxRuns == 2

(* Program constants of util.rs *)
RetryLimit == 2
CLIENT_LIMIT == 1

----------------------------------------------------------------------------
(* Data *)

Dep(n, v) == [name |-> n, version |-> v]

\* Dependency::id(): "name@version"
id(dep) == <<dep.name, dep.version>>

PlanNested ==
    (<<"left-pad">> :> Dep("left-pad", 1)) @@
    (<<"foo">> :> Dep("foo", 1)) @@
    (<<"foo", "left-pad">> :> Dep("left-pad", 2))

PlanShared ==
    (<<"a">> :> Dep("a", 1)) @@
    (<<"a", "b">> :> Dep("b", 1)) @@
    (<<"b">> :> Dep("b", 1))

PlanSingle == (<<"b">> :> Dep("b", 1))

\* a package that requires another version of itself
PlanSelfDep ==
    (<<"a">> :> Dep("a", 1)) @@
    (<<"a", "a">> :> Dep("a", 2)) @@
    (<<"a", "b">> :> Dep("b", 1)) @@
    (<<"a", "a", "b">> :> Dep("b", 2)) @@
    (<<"a", "b", "c">> :> Dep("c", 1))

Plans == {PlanNested, PlanShared, PlanSingle}

Last(s) == s[Len(s)]
Front(s) == SubSeq(s, 1, Len(s) - 1)
IsPrefix(p, s) == Len(p) <= Len(s) /\ SubSeq(s, 1, Len(p)) = p

Roots(p) == {n \in DOMAIN p : Len(n) = 1}
Children(p, n) == {c \in DOMAIN p : Len(c) = Len(n) + 1 /\ Front(c) = n}
Subtree(p, n) == {c \in DOMAIN p : IsPrefix(n, c)}
Ids(p) == {id(p[n]) : n \in DOMAIN p}

----------------------------------------------------------------------------
(* Paths *)

RECURSIVE PrefixSegments(_)
PrefixSegments(prefix) ==
    IF prefix = <<>> THEN <<>>
    ELSE <<Head(prefix), "node_modules">> \o PrefixSegments(Tail(prefix))

\* install_package: the target path of a dependency under a prefix
TargetPath(prefix, dep) ==
    <<"node_modules">> \o PrefixSegments(prefix) \o <<dep.name>>

----------------------------------------------------------------------------
(* File system *)

\* The files of an unpacked package (every tarball holds the same two names)
Files == {"package.json", "index.js"}

\* content: "incomplete" (the directory with none or some of the files) or "full"
NoStore == [i \in {} |-> [content |-> "incomplete", complete |-> FALSE]]
NoDirs == [d \in {} |-> [id |-> <<>>, files |-> {}, markers |-> {}]]

\* a store entry whose _complete marker is never found
CompleteNever(st, i) == FALSE

\* metadata(target_path.join("_complete")).is_ok()
Complete(st, i) == i \in DOMAIN st /\ st[i].complete

\* create_dir_all(&target_path) of download_package
CreateStoreDir(st, i) ==
    IF i \in DOMAIN st THEN st
    ELSE st @@ (i :> [content |-> "incomplete", complete |-> FALSE])

\* an install marker that is never found
HasMarkerNever(ds, path, i) == FALSE

\* exists(&install_marker)
HasMarker(ds, path, i) == path \in DOMAIN ds /\ i \in ds[path].markers

\* a removal that leaves the directory as it is
RemoveNothing(ds, path) == ds

\* remove_dir_all(&target_path): the directory and everything below it
RemoveDirAll(ds, path) ==
    [d \in {e \in DOMAIN ds : ~IsPrefix(path, e)} |-> ds[d]]

\* a hardlink step that writes the install marker before the links
HardlinkDirMarked(ds, path, i, fs) ==
    [d \in DOMAIN ds \cup {path} |->
        IF d = path THEN [id |-> i, files |-> fs, markers |-> {i}] ELSE ds[d]]

\* the files hardlink_dir has linked when one of its calls fails: none, or those
\* read_dir listed before the failing one (package.json being listed first)
LinkedBeforeError == {{}, {"package.json"}}

\* hardlink_dir(src, dst) that linked the files fs of the store entry i
HardlinkDir(ds, path, i, fs) ==
    [d \in DOMAIN ds \cup {path} |->
        IF d = path
        THEN [id |-> i, files |-> fs,
              markers |-> IF path \in DOMAIN ds THEN ds[path].markers ELSE {}]
        ELSE ds[d]]

\* File::create(&install_marker)
CreateMarker(ds, path, i) ==
    [ds EXCEPT ![path].markers = @ \cup {i}]

\* the node whose files are at node_modules/<path> with its install marker
Placed(ds, path, i) ==
    /\ HasMarker(ds, path, i)
    /\ ds[path].id = i
    /\ ds[path].files = Files

----------------------------------------------------------------------------
(* The single-flight cache and download_package *)

WarmCaller(n) == <<"warm", n>>
TaskCaller(n) == <<"task", n>>
Callers == {WarmCaller(n) : n \in DOMAIN plan} \cup {TaskCaller(n) : n \in DOMAIN plan}
CallerDep(c) == plan[c[2]]

\* a call that bypasses the cache: every caller runs its own download
CacheKeyPerCaller(c, dep) == c

\* download_package_shared: CACHE.get(dep), the cache is keyed by the dependency
CacheKey(c, dep) == dep

NewFlight(dep) == [dep |-> dep, pc |-> "begin", attempt |-> 1]

\* Cache::get by the callers cs: the first caller of a key starts the loader,
\* the others share its future
CacheGet(fl, cs) ==
    LET keys == {CacheKey(c, CallerDep(c)) : c \in cs}
        depOf(k) == CallerDep(CHOOSE c \in cs : CacheKey(c, CallerDep(c)) = k)
    IN  [k \in DOMAIN fl \cup keys |-> IF k \in DOMAIN fl THEN fl[k] ELSE NewFlight(depOf(k))]

\* the callers that have called download_package_shared
Called(c) ==
    IF c[1] = "warm" THEN c[2] \in warm ELSE task[c[2]].pc # "unspawned"

FlightOf(c) == flight[CacheKey(c, CallerDep(c))]

\* the result a caller gets from the shared future: "none" until it is ready
Outcome(c) ==
    IF Called(c) /\ FlightOf(c).pc \in {"ok", "err"} THEN FlightOf(c).pc ELSE "none"

\* executions of the cache loader for an id in this process
LoaderRuns(i) == Cardinality({k \in DOMAIN flight : id(flight[k].dep) = i})

\* retry: a failed attempt is run again until RetryLimit attempts were made
RetryOrFail(f) ==
    IF f.attempt < RetryLimit
    THEN [f EXCEPT !.pc = "begin", !.attempt = @ + 1]
    ELSE [f EXCEPT !.pc = "err"]

\* a semaphore that hands out a permit it does not have
CanAcquireAlways(p) == TRUE

\* S.acquire(): a permit is taken when one is available
CanAcquire(p) == p > 0

\* download_package, lines 71-81: create the store directory, return Ok if the
\* entry is complete, else wait for a permit of S
LoaderBegin(k) ==
    /\ flight[k].pc = "begin"
    /\ LET i == id(flight[k].dep)
       IN  /\ store' = CreateStoreDir(store, i)
           /\ IF Complete(store, i)
              THEN /\ flight' = [flight EXCEPT ![k].pc = "ok"]
                   /\ UNCHANGED permits
              ELSE /\ CanAcquire(permits)
                   /\ permits' = permits - 1
                   /\ flight' = [flight EXCEPT ![k].pc = "get"]
    /\ UNCHANGED <<inputVars, dirs, bins, snapshot, run, pc, execVars, pump,
                   netCalls, linked, execResult, result, prevResult, scriptVars>>

\* a GET whose error path keeps the permit
LoaderGetKeepingPermit(k) ==
    /\ flight[k].pc = "get"
    /\ netCalls' = [netCalls EXCEPT ![id(flight[k].dep)] = @ + 1]
    /\ \/ /\ flight' = [flight EXCEPT ![k].pc = "unpack"]
          /\ pump' = pump \cup {k}
          /\ UNCHANGED permits
       \/ /\ flight' = [flight EXCEPT ![k] = RetryOrFail(@)]
          /\ UNCHANGED <<permits, pump>>
    /\ UNCHANGED <<inputVars, fsVars, run, pc, execVars, linked,
                   execResult, result, prevResult, scriptVars>>

\* download_package, lines 85-112: the GET; on success the stream task takes the
\* permit, on an error the permit is dropped with the attempt
LoaderGet(k) ==
    /\ flight[k].pc = "get"
    /\ netCalls' = [netCalls EXCEPT ![id(flight[k].dep)] = @ + 1]
    /\ \/ /\ flight' = [flight EXCEPT ![k].pc = "unpack"]
          /\ pump' = pump \cup {k}
          /\ UNCHANGED permits
       \/ /\ flight' = [flight EXCEPT ![k] = RetryOrFail(@)]
          /\ permits' = permits + 1
          /\ UNCHANGED pump
    /\ UNCHANGED <<inputVars, fsVars, run, pc, execVars, linked,
                   execResult, result, prevResult, scriptVars>>

\* plan.rs lines 103-110: the stream ended (or its receiver is gone): drop(permit)
PumpEnd(k) ==
    /\ k \in pump
    /\ pump' = pump \ {k}
    /\ permits' = permits + 1
    /\ UNCHANGED <<inputVars, fsVars, run, pc, execVars, flight, netCalls,
                   linked, execResult, result, prevResult, scriptVars>>

\* an unpack that fails and still leaves the _complete marker
FailedUnpackMarked(e) == [content |-> "incomplete", complete |-> TRUE]

\* download_package, lines 120-123: the error of unpack is returned before the
\* marker is created; the files unpacked so far stay
FailedUnpack(e) == [e EXCEPT !.content = "incomplete"]

\* download_package, lines 118-129: archive.unpack(&target_path) ends; after a
\* success the _complete marker is created
LoaderUnpack(k) ==
    /\ flight[k].pc = "unpack"
    /\ LET i == id(flight[k].dep)
       IN  \/ /\ store' = [store EXCEPT ![i] = [content |-> "full", complete |-> TRUE]]
              /\ flight' = [flight EXCEPT ![k].pc = "ok"]
           \/ /\ store' = [store EXCEPT ![i] = FailedUnpack(@)]
              /\ flight' = [flight EXCEPT ![k] = RetryOrFail(@)]
    /\ UNCHANGED <<inputVars, dirs, bins, snapshot, run, pc, execVars, pump, permits,
                   netCalls, linked, execResult, result, prevResult, scriptVars>>

----------------------------------------------------------------------------
(* queue_install: the install task of a node *)

\* the members of a set of nodes in a sequence
RECURSIVE InSequence(_)
InSequence(S) ==
    IF S = {} THEN <<>>
    ELSE LET n == CHOOSE m \in S : TRUE IN <<n>> \o InSequence(S \ {n})

\* a send that is awaited: the handles are enqueued
QueueInstallSendAwaited(ch, handles) == ch \o InSequence(handles)

\* a task that queues its children whatever install_package returned
CanQueueChildrenAlways(res) == TRUE

\* queue_install, line 223: install_package(..).await? comes before the loop
\* over the children
CanQueueChildren(res) == res = "Ok"

\* a prefix that leaves the parent's name out
ChildPrefixHoisted(prefix, name) == prefix

\* queue_install, lines 226-227: prefix.clone() with the root's name pushed
ChildPrefix(prefix, name) == Append(prefix, name)

\* queue_install, line 222: send.clone().send(handle) builds the Send future of
\* the async channel and drops it without polling it: nothing is enqueued and the
\* JoinHandle is dropped, which detaches the task
QueueInstallSend(ch, handles) == ch

\* tokio::spawn of the install task of a node: it calls download_package_shared
SpawnedTask(prefix) == [pc |-> "waiting", prefix |-> prefix]

\* the end of the task of node n, install_package having returned res: its
\* children are queued after a success, then the task drops its Sender
FinishInstall(n, res) ==
    LET kids == IF CanQueueChildren(res) THEN Children(plan, n) ELSE {}
    IN  /\ task' = [m \in DOMAIN plan |->
                      IF m = n
                      THEN [task[n] EXCEPT !.pc = IF res = "Ok" THEN "done" ELSE "failed"]
                      ELSE IF m \in kids
                      THEN SpawnedTask(ChildPrefix(task[n].prefix, plan[n].name))
                      ELSE task[m]]
        /\ flight' = CacheGet(flight, {TaskCaller(m) : m \in kids})
        /\ senders' = senders + Cardinality(kids) - 1
        /\ chan' = QueueInstallSend(chan, kids)

TaskPath(n) == TargetPath(task[n].prefix, plan[n])

\* install_package, lines 170-204, once the shared download is ready: an error
\* is returned; with the install marker present the node is skipped; else the
\* target is removed, the store entry hardlinked (an error leaves the files
\* linked so far) and the marker created
TaskInstall(n) ==
    /\ task[n].pc = "waiting"
    /\ Outcome(TaskCaller(n)) # "none"
    /\ LET path == TaskPath(n)
           i == id(plan[n])
       IN  IF Outcome(TaskCaller(n)) = "err"
           THEN FinishInstall(n, "Err") /\ UNCHANGED <<dirs, linked>>
           ELSE IF HasMarker(dirs, path, i)
           THEN FinishInstall(n, "Ok") /\ UNCHANGED <<dirs, linked>>
           ELSE /\ linked' = linked \cup {n}
                /\ \/ /\ store[i].content = "full"
                      /\ dirs' = CreateMarker(
                                   HardlinkDir(RemoveDirAll(dirs, path), path, i, Files),
                                   path, i)
                      /\ FinishInstall(n, "Ok")
                   \/ /\ \E fs \in LinkedBeforeError :
                            dirs' = HardlinkDir(RemoveDirAll(dirs, path), path, i, fs)
                      /\ FinishInstall(n, "Err")
    /\ UNCHANGED <<inputVars, store, bins, snapshot, run, pc, queued, warm, pump,
                   permits, netCalls, execResult, result, prevResult, scriptVars>>

----------------------------------------------------------------------------
(* install and execute_plan *)

\* Plan::satisfies, lines 45-49: the map from the name of each tree root to its
\* version (Plan.trees is keyed by the root's name)
RootVersions(p) ==
    [nm \in {p[r].name : r \in Roots(p)} |->
        p[CHOOSE r \in Roots(p) : p[r].name = nm].version]

\* range.satisfies(version): a range is the set of the versions within it
RangeSatisfies(range, version) == version \in range

\* a check that looks at the names of the roots only
SatisfiesNameOnly(p, m) ==
    \A req \in m : req.name \in DOMAIN RootVersions(p)

\* Plan::satisfies, lines 50-57: every requirement has its name in the map and
\* is a Range specifier whose range the mapped version satisfies
Satisfies(p, m) ==
    LET map == RootVersions(p)
    IN  \A req \in m :
            IF req.name \in DOMAIN map
            THEN IF req.kind = "Range"
                 THEN RangeSatisfies(req.range, map[req.name])
                 ELSE FALSE
            ELSE FALSE

\* a plan.json that does not parse as a Plan
Unreadable == (<<>> :> Dep("", 0))

\* read_plan: the Plan in node_modules/.xmas/plan.json, or an error
ReadPlan(snap) ==
    IF snap = {} \/ snap = {Unreadable} THEN {} ELSE snap

\* a verification that does not compare the snapshot with the plan
VerifyInstallationAnyPlan(p, m, snap) ==
    /\ ReadPlan(snap) # {}
    /\ \A installed \in ReadPlan(snap) : Satisfies(installed, m)

\* verify_installation: Ok(true)
VerifyInstallation(p, m, snap) ==
    /\ ReadPlan(snap) # {}
    /\ \A installed \in ReadPlan(snap) : installed = p /\ Satisfies(installed, m)


\* install, lines 141-155: prepare_plan, then execute the plan unless the
\* installation is verified
InstallStart ==
    /\ pc = "start"
    /\ IF VerifyInstallation(plan, manifest, snapshot)
       THEN pc' = "done" /\ result' = "Ok"
       ELSE pc' = "queue" /\ UNCHANGED result
    /\ UNCHANGED <<inputVars, fsVars, run, execVars, cacheVars, linked, execResult,
                   prevResult, scriptVars>>

\* execute_plan, lines 237-240: warmup_dep_tree and queue_install of one tree
QueueTree(r) ==
    /\ pc = "queue"
    /\ r \in Roots(plan) \ queued
    /\ queued' = queued \cup {r}
    /\ warm' = warm \cup Subtree(plan, r)
    /\ task' = [task EXCEPT ![r] = SpawnedTask(<<>>)]
    /\ flight' = CacheGet(flight, {WarmCaller(n) : n \in Subtree(plan, r)}
                                   \cup {TaskCaller(r)})
    /\ senders' = senders + 1
    /\ chan' = QueueInstallSend(chan, {r})
    /\ UNCHANGED <<inputVars, fsVars, run, pc, pump, permits, netCalls, linked,
                   execResult, result, prevResult, scriptVars>>

\* execute_plan, line 242: drop(send)
DropSend ==
    /\ pc = "queue"
    /\ queued = Roots(plan)
    /\ senders' = senders - 1
    /\ pc' = "recv"
    /\ UNCHANGED <<inputVars, fsVars, run, queued, chan, warm, task, cacheVars, linked,
                   execResult, result, prevResult, scriptVars>>

\* execute_plan, lines 244-248: recv() yields the next handle, which is awaited
\* and whose error is returned, or fails once the channel is empty and every
\* Sender is dropped, which ends the loop with Ok(())
Recv ==
    /\ pc = "recv"
    /\ IF chan # <<>>
       THEN /\ task[Head(chan)].pc \in {"done", "failed"}
            /\ chan' = Tail(chan)
            /\ IF task[Head(chan)].pc = "failed"
               THEN execResult' = "Err" /\ result' = "Err" /\ pc' = "done"
               ELSE UNCHANGED <<execResult, result, pc>>
       ELSE /\ senders = 0
            /\ execResult' = "Ok"
            /\ pc' = IF disallow THEN "bins" ELSE "scripts"
            /\ UNCHANGED <<chan, result>>
    /\ UNCHANGED <<inputVars, fsVars, run, queued, senders, warm, task, cacheVars,
                   linked, prevResult, scriptVars>>

----------------------------------------------------------------------------
(* Lifecycle scripts *)

LifecycleScripts == <<"preinstall", "install", "postinstall">>

\* the scripts the package.json of a package declares
PackageScripts(i) ==
    IF i[1] \in {"foo", "a"} THEN {"preinstall", "install", "postinstall"}
    ELSE IF i = <<"left-pad", 1>> THEN {}
    ELSE {"install"}

\* the exit codes (i32) the shell can return for a script of a package: 0 or 1,
\* and for the preinstall script of "a", which can end on an NTSTATUS error, a
\* negative code
ExitCodes(i, sn) ==
    IF i[1] = "a" /\ sn = "preinstall" THEN {-1, 0, 1} ELSE {0, 1}

RECURSIVE JoinStack(_)
JoinStack(stack) ==
    IF Len(stack) <= 1 THEN stack
    ELSE <<Head(stack), "node_modules">> \o JoinStack(Tail(stack))

\* exec_install_scripts_in, lines 83-85: stack.join("/node_modules/") under
\* node_modules
ScriptDir(stack) == <<"node_modules">> \o JoinStack(stack)

\* install, line 170: the stack exec_install_scripts starts a tree with
InitialStack(r) == <<plan[r].name>>

\* the orders in which a set of nodes can be iterated
Orders(S) == {o \in [1..Cardinality(S) -> S] : \A x \in S : \E j \in DOMAIN o : o[j] = x}

\* exec_install_scripts, lines 130-133: push the popped tree's name on its
\* stack and the children with a copy of it on the work stack
PushChildren(ws, n, stack, order) ==
    ws \o [j \in DOMAIN order |->
             [node |-> order[j], stack |-> Append(stack, plan[n].name)]]

\* install, lines 169-170: exec_install_scripts of the next tree
ScriptsTree(r) ==
    /\ pc = "scripts"
    /\ workStack = <<>>
    /\ r \in Roots(plan) \ treesDone
    /\ treesDone' = treesDone \cup {r}
    /\ workStack' = <<[node |-> r, stack |-> InitialStack(r)]>>
    /\ UNCHANGED <<inputVars, fsVars, run, pc, execVars, cacheVars, linked, execResult,
                   result, prevResult, curDir, curNode, pending, visits, scriptLog>>

\* install, line 172: every tree is done
ScriptsEnd ==
    /\ pc = "scripts"
    /\ workStack = <<>>
    /\ treesDone = Roots(plan)
    /\ pc' = "bins"
    /\ UNCHANGED <<inputVars, fsVars, run, execVars, cacheVars, linked, execResult,
                   result, prevResult, scriptVars>>

\* exec_install_scripts, lines 127-128 and exec_install_scripts_in, lines 83-96:
\* pop an entry and read the package.json of its directory; a missing file is Ok
ScriptsPop ==
    /\ pc = "scripts"
    /\ workStack # <<>>
    /\ LET top == Last(workStack)
           dir == ScriptDir(top.stack)
           found == dir \in DOMAIN dirs /\ "package.json" \in dirs[dir].files
           todo == IF found
                   THEN SelectSeq(LifecycleScripts,
                                  LAMBDA sn : sn \in PackageScripts(dirs[dir].id))
                   ELSE <<>>
       IN  /\ visits' = Append(visits, [node |-> top.node, dir |-> dir])
           /\ IF todo = <<>>
              THEN /\ \E order \in Orders(Children(plan, top.node)) :
                         workStack' = PushChildren(Front(workStack), top.node,
                                                   top.stack, order)
                   /\ UNCHANGED <<pc, curDir, curNode, pending>>
              ELSE /\ workStack' = Front(workStack)
                   /\ curDir' = dir
                   /\ curNode' = top
                   /\ pending' = todo
                   /\ pc' = "inpkg"
    /\ UNCHANGED <<inputVars, fsVars, run, execVars, cacheVars, linked, execResult,
                   result, prevResult, treesDone, scriptLog>>

\* exec_install_scripts_in, lines 97-115: run the next script of the package; an
\* exit code above zero is returned as the error of install
ScriptRun ==
    /\ pc = "inpkg"
    /\ \E code \in ExitCodes(dirs[curDir].id, Head(pending)) :
        /\ scriptLog' = Append(scriptLog,
                               [visit |-> Len(visits), dir |-> curDir,
                                script |-> Head(pending), code |-> code])
        /\ IF code > 0
           THEN /\ result' = "Err"
                /\ pc' = "done"
                /\ UNCHANGED <<workStack, pending>>
           ELSE /\ pending' = Tail(pending)
                /\ UNCHANGED result
                /\ IF Tail(pending) = <<>>
                   THEN /\ pc' = "scripts"
                        /\ \E order \in Orders(Children(plan, curNode.node)) :
                              workStack' = PushChildren(workStack, curNode.node,
                                                        curNode.stack, order)
                   ELSE UNCHANGED <<pc, workStack>>
    /\ UNCHANGED <<inputVars, fsVars, run, execVars, cacheVars, linked, execResult,
                   prevResult, treesDone, curDir, curNode, visits>>

----------------------------------------------------------------------------
(* Bin setup, the plan snapshot and the next run *)

\* Dependency.bins: the commands a package exposes
BinCmds(dep) ==
    IF dep.name = "foo" THEN {"foo"}
    ELSE IF dep.name = "b" THEN {"b", "scope/b"}
    ELSE {}

\* cmd.contains('/')
HasSlash(c) == c \in {"scope/b"}

\* setup_bins, line 290: the commands of a dependency that get a link
LinkedCmds(dep) == {c \in BinCmds(dep) : ~HasSlash(c)}

\* a setup_bins that goes through every node of every tree
SetupBinsAllNodes ==
    /\ pc = "bins"
    /\ \/ /\ bins' = bins \cup UNION {LinkedCmds(plan[n]) : n \in DOMAIN plan}
          /\ pc' = "snapshot"
          /\ UNCHANGED result
       \/ /\ result' = "Err"
          /\ pc' = "done"
          /\ UNCHANGED bins
    /\ UNCHANGED <<inputVars, store, dirs, snapshot, run, execVars, cacheVars, linked,
                   execResult, prevResult, scriptVars>>

\* setup_bins: a link per command of every tree root, an existing link being
\* left in place; an I/O error is returned
SetupBins ==
    /\ pc = "bins"
    /\ \/ /\ bins' = bins \cup UNION {LinkedCmds(plan[r]) : r \in Roots(plan)}
          /\ pc' = "snapshot"
          /\ UNCHANGED result
       \/ /\ result' = "Err"
          /\ pc' = "done"
          /\ UNCHANGED bins
    /\ UNCHANGED <<inputVars, store, dirs, snapshot, run, execVars, cacheVars, linked,
                   execResult, prevResult, scriptVars>>

\* install, lines 176-181: write_json("node_modules/.xmas/plan.json", &plan)
WriteSnapshot ==
    /\ pc = "snapshot"
    /\ snapshot' = {plan}
    /\ result' = "Ok"
    /\ pc' = "done"
    /\ UNCHANGED <<inputVars, store, dirs, bins, run, execVars, cacheVars, linked,
                   execResult, prevResult, scriptVars>>

\* the state of a process of install that has just started on plan p
ProcessStart(p) ==
    [ pc |-> "start",
      queued |-> {},
      senders |-> 1,
      chan |-> <<>>,
      warm |-> {},
      task |-> [n \in DOMAIN p |-> [pc |-> "unspawned", prefix |-> <<>>]],
      flight |-> [k \in {} |-> NewFlight(Dep("", 0))],
      pump |-> {},
      permits |-> CLIENT_LIMIT,
      netCalls |-> [i \in Ids(p) |-> 0],
      linked |-> {},
      execResult |-> "none",
      result |-> "none",
      workStack |-> <<>>,
      treesDone |-> {},
      curDir |-> <<>>,
      curNode |-> [node |-> <<>>, stack |-> <<>>],
      pending |-> <<>>,
      visits |-> <<>>,
      scriptLog |-> <<>> ]

ProcessInit ==
    LET ps == ProcessStart(plan)
    IN  /\ pc = ps.pc
        /\ queued = ps.queued
        /\ senders = ps.senders
        /\ chan = ps.chan
        /\ warm = ps.warm
        /\ task = ps.task
        /\ flight = ps.flight
        /\ pump = ps.pump
        /\ permits = ps.permits
        /\ netCalls = ps.netCalls
        /\ linked = ps.linked
        /\ execResult = ps.execResult
        /\ result = ps.result
        /\ workStack = ps.workStack
        /\ treesDone = ps.treesDone
        /\ curDir = ps.curDir
        /\ curNode = ps.curNode
        /\ pending = ps.pending
        /\ visits = ps.visits
        /\ scriptLog = ps.scriptLog

ProcessReset ==
    LET ps == ProcessStart(plan)
    IN  /\ pc' = ps.pc
        /\ queued' = ps.queued
        /\ senders' = ps.senders
        /\ chan' = ps.chan
        /\ warm' = ps.warm
        /\ task' = ps.task
        /\ flight' = ps.flight
        /\ pump' = ps.pump
        /\ permits' = ps.permits
        /\ netCalls' = ps.netCalls
        /\ linked' = ps.linked
        /\ execResult' = ps.execResult
        /\ result' = ps.result
        /\ workStack' = ps.workStack
        /\ treesDone' = ps.treesDone
        /\ curDir' = ps.curDir
        /\ curNode' = ps.curNode
        /\ pending' = ps.pending
        /\ visits' = ps.visits
        /\ scriptLog' = ps.scriptLog

----------------------------------------------------------------------------
(* The registry, the dependency graph and the lockfile *)

\* a PackageSpecifier with a version range
Requirement(nm, range) == [name |-> nm, kind |-> "Range", range |-> range]

\* what the registry publishes, now and at an earlier time
RegistryNow == {Dep("a", 1), Dep("a", 2), Dep("b", 1), Dep("c", 1)}
RegistryOld == {Dep("a", 1), Dep("b", 1), Dep("c", 1)}
Registries == {RegistryOld, RegistryNow}

\* the dependencies a published version declares: a and b require each other,
\* c requires itself
Requires(d) ==
    IF d.name = "a" THEN {Requirement("b", {1})}
    ELSE IF d.name = "b" THEN {Requirement("a", {1, 2})}
    ELSE IF d.name = "c" THEN {Requirement("c", {1})}
    ELSE {}

\* Graph::default()
EmptyGraph == {}

Resolved(g) == {r[2] : r \in g}

\* VersionSpecifier::satisfies of a resolved dependency
Satisfied(req, d) == d.name = req.name /\ d.version \in req.range

\* a selection that takes any published version of the name
CandidatesAnyVersion(reg, g, req) == {d \in reg : d.name = req.name}

\* the versions append selects from for a requirement: the versions already
\* resolved in the graph that satisfy it, or else the highest published one
\* that does
Candidates(reg, g, req) ==
    LET shared == {d \in Resolved(g) : Satisfied(req, d)}
        published == {d \in reg : Satisfied(req, d)}
    IN  IF shared # {} THEN shared
        ELSE {d \in published : \A e \in published : e.version <= d.version}

\* the error of a requirement nothing can be selected for
SelectError(reg, req) ==
    IF \E d \in reg : d.name = req.name THEN "no satisfying version" ELSE "not found"

\* Graph::append: the outcomes of resolving the requirements todo into the
\* graph g, in any order of the concurrent fetches, each of which can fail
RECURSIVE AppendResults(_, _, _)
AppendResults(reg, g, todo) ==
    LET open == {req \in todo : ~ \E r \in g : r[1] = req}
    IN  IF open = {} THEN {[error |-> "none", relations |-> g]}
        ELSE UNION {
            {[error |-> "network", relations |-> g]} \cup
            (IF Candidates(reg, g, req) = {}
             THEN {[error |-> SelectError(reg, req), relations |-> g]}
             ELSE UNION {AppendResults(reg, g \cup {<<req, d>>},
                                       (open \ {req}) \cup Requires(d)) :
                           d \in Candidates(reg, g, req)}) : req \in open}

\* Graph::resolve_req: the resolved dependency of a requirement, none when
\* the graph has no relation for it
ResolveReq(g, req) == {r[2] : r \in {q \in g : q[1] = req}}

\* the key of a relation in the lockfile
SpecifierKey(req) == <<req.name, req.range>>
ParseKey(k) == Requirement(k[1], k[2])

NoEntries == [k \in {} |-> Dep("", 0)]
NoLockfile == [exists |-> FALSE, entries |-> NoEntries]

\* a lockfile keyed by the name of the requirement alone
LockfileByName(g) ==
    [exists |-> TRUE,
     entries |-> [k \in {<<r[1].name, {}>> : r \in g} |->
                     CHOOSE d \in Resolved(g) : \E r \in g : r[1].name = k[1] /\ r[2] = d]]

\* Lockfile::new
LockfileNew(g) ==
    [exists |-> TRUE,
     entries |-> [k \in {SpecifierKey(r[1]) : r \in g} |->
                     CHOOSE d \in Resolved(g) : <<ParseKey(k), d>> \in g]]

\* the Graph of a Lockfile
ToGraph(l) == {<<ParseKey(k), l.entries[k]>> : k \in DOMAIN l.entries}

\* load_graph_from_lockfile: the graph of xmas.lock, the empty graph without one
LoadGraph(l) == IF l.exists THEN ToGraph(l) ELSE EmptyGraph

\* the graphs the resolver produces for a manifest from the empty graph
ResolutionsOf(reg, m) ==
    {r.relations : r \in {q \in AppendResults(reg, EmptyGraph, m) : q.error = "none"}}

\* the paths of the host file system the vsys calls are made with
FsPaths == {"x", "y"}

\* a path nothing is at
NoEntry == [kind |-> "none", len |-> 0, mode |-> 0, owner |-> 0, target |-> ""]

\* an empty host file system
NoDisk == [p \in FsPaths |-> NoEntry]

\* no FsHandle is held
NoHandle == [open |-> FALSE, path |-> "x", read |-> FALSE, write |-> FALSE, append |-> FALSE]

\* no call has returned yet
NoFsResult == [status |-> "none", data |-> 0, text |-> ""]

\* the threads that call TaskQueue::push
Pushers == {1, 2, 3}

\* the clones of a ContextOwner that can exist
Clones == {1, 2, 3, 4}

\* the state of vsys before any call
VsysIdle ==
    /\ vtable = "default"
    /\ disk = NoDisk
    /\ handle = NoHandle
    /\ fsResult = NoFsResult

\* Permissions::default(), no check made
PermIdle ==
    /\ net = [kind |-> "WhiteList", items |-> <<>>]
    /\ host = <<>>
    /\ netResult = "none"

\* TaskQueue::new(), lines 32-39, and no thread inside a call
QueueIdle ==
    /\ tasks = <<>>
    /\ waker = 0
    /\ wakerLock = "free"
    /\ pushPc = [t \in Pushers |-> [pc |-> "idle", seen |-> 0]]
    /\ listenPc = "idle"
    /\ registered = 0
    /\ woken = <<>>
    /\ pollPc = "idle"
    /\ worker = <<>>
    /\ pendingVec = <<>>
    /\ madeProgress = FALSE
    /\ pollResult = [value |-> "none", left |-> <<>>, before |-> 0, ready |-> 0]
    /\ completed = <<>>

\* ContextOwner::new(), lines 22-27: one owner, no clone of it
OwnerIdle ==
    /\ strongCount = 1
    /\ owners = [c \in Clones |-> IF c = 1 THEN "alive" ELSE "none"]
    /\ dropCalls = 0

\* cmd_clean has not been called
CleanIdle == cleanLog = <<>>

\* the package manager runs without the other crates being called
CratesIdle == VsysIdle /\ PermIdle /\ QueueIdle /\ OwnerIdle /\ CleanIdle

\* the state of the resolver's variables once prepare_plan has returned the plan
PlanPrepared ==
    /\ cmd = "install"
    /\ immutable = FALSE
    /\ registry = RegistryNow
    /\ lockfile = NoLockfile
    /\ graph = EmptyGraph
    /\ storage = TRUE
    /\ before = [storage |-> FALSE, lockfile |-> NoLockfile]
    /\ buildStack = {}
    /\ target = [name |-> "", version |-> 0]
    /\ queue = <<>>
    /\ seen = {}
    /\ expanded = <<>>

\* install returned the error of exec_install_scripts_in, lines 107-112
ScriptFailed ==
    result = "Err" /\ scriptLog # <<>> /\ Last(scriptLog).code > 0

\* install is run again with the same manifest: a new process over the files
\* the previous one left
NewRun ==
    /\ pc = "done"
    /\ run < MaxRuns
    /\ run' = run + 1
    /\ prevResult' = IF ScriptFailed THEN "ScriptErr" ELSE result
    /\ UNCHANGED <<inputVars, fsVars>>
    /\ ProcessReset

\* the manifest a plan is built from: a range or a dist-tag per root
ManifestOf(p, kind) ==
    {[name |-> p[r].name, kind |-> kind,
      range |-> IF kind = "Range" THEN {p[r].version} ELSE {}] : r \in Roots(p)}

\* the projects install is run in
Projects ==
    { [plan |-> PlanNested, manifest |-> ManifestOf(PlanNested, "Range"), disallow |-> FALSE],
      [plan |-> PlanShared, manifest |-> ManifestOf(PlanShared, "Tag"), disallow |-> FALSE],
      [plan |-> PlanSingle, manifest |-> ManifestOf(PlanSingle, "Range"), disallow |-> TRUE] }

Init ==
    /\ CratesIdle
    /\ \E prj \in Projects :
        /\ plan = prj.plan
        /\ manifest = prj.manifest
        /\ disallow = prj.disallow
    /\ store = NoStore
    /\ dirs = NoDirs
    /\ bins = {}
    /\ snapshot = {}
    /\ run = 1
    /\ prevResult = "none"
    /\ ProcessInit
    /\ PlanPrepared

Next ==
    \/ InstallStart
    \/ \E r \in Roots(plan) : QueueTree(r)
    \/ DropSend
    \/ Recv
    \/ \E n \in DOMAIN plan : TaskInstall(n)
    \/ \E k \in DOMAIN flight : LoaderBegin(k)
    \/ \E k \in DOMAIN flight : LoaderGet(k)
    \/ \E k \in DOMAIN flight : LoaderUnpack(k)
    \/ \E k \in pump : PumpEnd(k)
    \/ \E r \in Roots(plan) : ScriptsTree(r)
    \/ ScriptsEnd
    \/ ScriptsPop
    \/ ScriptRun
    \/ SetupBins
    \/ WriteSnapshot
    \/ NewRun

Spec == Init /\ [][Next]_vars

----------------------------------------------------------------------------
(* The lifecycle scripts alone: install from the return of an execute_plan in
   which every download and every placement succeeded *)

\* the directory a node of the plan is installed at: its parent's directory,
\* node_modules, its name
RECURSIVE NestedPath(_)
NestedPath(n) ==
    IF Len(n) = 1 THEN <<"node_modules", n[1]>>
    ELSE NestedPath(Front(n)) \o <<"node_modules", Last(n)>>

ExecutedCleanly ==
    /\ pc = IF disallow THEN "bins" ELSE "scripts"
    /\ execResult = "Ok"
    /\ result = "none"
    /\ queued = Roots(plan)
    /\ senders = 0
    /\ chan = <<>>
    /\ warm = DOMAIN plan
    /\ task = [n \in DOMAIN plan |-> [pc |-> "done", prefix |-> Front(n)]]
    /\ flight = [d \in {plan[n] : n \in DOMAIN plan} |->
                    [dep |-> d, pc |-> "ok", attempt |-> 1]]
    /\ pump = {}
    /\ permits = CLIENT_LIMIT
    /\ netCalls = [i \in Ids(plan) |-> 1]
    /\ linked = DOMAIN plan
    /\ store = [i \in Ids(plan) |-> [content |-> "full", complete |-> TRUE]]
    /\ dirs = [d \in {NestedPath(n) : n \in DOMAIN plan} |->
                 LET n == CHOOSE m \in DOMAIN plan : NestedPath(m) = d
                 IN  [id |-> id(plan[n]), files |-> Files, markers |-> {id(plan[n])}]]
    /\ bins = {}
    /\ snapshot = {}
    /\ workStack = <<>>
    /\ treesDone = {}
    /\ curDir = <<>>
    /\ curNode = [node |-> <<>>, stack |-> <<>>]
    /\ pending = <<>>
    /\ visits = <<>>
    /\ scriptLog = <<>>

ScriptProjects ==
    { [plan |-> PlanSelfDep, manifest |-> ManifestOf(PlanSelfDep, "Range"), disallow |-> FALSE],
      [plan |-> PlanNested, manifest |-> ManifestOf(PlanNested, "Range"), disallow |-> FALSE],
      [plan |-> PlanShared, manifest |-> ManifestOf(PlanShared, "Range"), disallow |-> FALSE] }

InitScripts ==
    /\ CratesIdle
    /\ \E prj \in ScriptProjects :
        /\ plan = prj.plan
        /\ manifest = prj.manifest
        /\ disallow = prj.disallow
    /\ run = 1
    /\ prevResult = "none"
    /\ ExecutedCleanly
    /\ PlanPrepared

NextScripts ==
    \/ \E r \in Roots(plan) : ScriptsTree(r)
    \/ ScriptsEnd
    \/ ScriptsPop
    \/ ScriptRun
    \/ SetupBins
    \/ WriteSnapshot

SpecScripts == InitScripts /\ [][NextScripts]_vars

----------------------------------------------------------------------------
(* Plan::satisfies and verify_installation alone, over plans, manifests and
   snapshots with semantic versions *)

NoVersion == <<>>
Versions == {<<1, 0, 0>>, <<1, 2, 0>>, <<2, 0, 0>>}

VersionLeq(v, w) ==
    \/ v[1] < w[1]
    \/ v[1] = w[1] /\ v[2] < w[2]
    \/ v[1] = w[1] /\ v[2] = w[2] /\ v[3] <= w[3]

\* the range ^base: the versions of the major of base from base on
Caret(base) == {v \in Versions : v[1] = base[1] /\ VersionLeq(base, v)}

\* the plan with the trees a (with a child c or without) and b at the versions
\* given, a tree being left out with NoVersion
PlanOf(av, bv, child) ==
    LET nodes == (IF av = NoVersion THEN {} ELSE {<<"a">>})
                 \cup (IF av # NoVersion /\ child THEN {<<"a", "c">>} ELSE {})
                 \cup (IF bv = NoVersion THEN {} ELSE {<<"b">>})
    IN  [n \in nodes |->
            IF n = <<"a">> THEN Dep("a", av)
            ELSE IF n = <<"b">> THEN Dep("b", bv)
            ELSE Dep("c", <<1, 0, 0>>)]

VerifyPlans ==
    {PlanOf(av, bv, child) : av \in Versions \cup {NoVersion},
                             bv \in {<<1, 0, 0>>, NoVersion}, child \in BOOLEAN}

RangeReq(nm, base) == [name |-> nm, kind |-> "Range", range |-> Caret(base)]
TagReq(nm) == [name |-> nm, kind |-> "Tag", range |-> {}]

\* the requirements of package.json: at most one per name
VerifyManifests ==
    {ra \cup rb : ra \in {{}, {RangeReq("a", <<1, 0, 0>>)}, {RangeReq("a", <<2, 0, 0>>)},
                           {TagReq("a")}},
                  rb \in {{}, {RangeReq("b", <<1, 0, 0>>)}}}

VerifySnapshots == {{}, {Unreadable}} \cup {{q} : q \in VerifyPlans}

\* prepare_plan: a plan of one tree per requirement, at a version within the
\* range of a Range requirement
Prepared(p, m) ==
    /\ {p[r].name : r \in Roots(p)} = {req.name : req \in m}
    /\ \A req \in m : \A r \in Roots(p) :
          (p[r].name = req.name /\ req.kind = "Range") => p[r].version \in req.range

\* a call of Plan::satisfies
CallSatisfies ==
    /\ pc = "start"
    /\ pc' = "done"
    /\ result' = IF Satisfies(plan, manifest) THEN "true" ELSE "false"
    /\ UNCHANGED <<inputVars, fsVars, run, execVars, cacheVars, linked, execResult,
                   prevResult, scriptVars>>

InitSatisfies ==
    /\ CratesIdle
    /\ plan \in VerifyPlans
    /\ manifest \in VerifyManifests
    /\ disallow = FALSE
    /\ store = NoStore
    /\ dirs = NoDirs
    /\ bins = {}
    /\ snapshot = {}
    /\ run = 1
    /\ prevResult = "none"
    /\ ProcessInit
    /\ PlanPrepared

NextSatisfies == CallSatisfies

SpecSatisfies == InitSatisfies /\ [][NextSatisfies]_vars

\* install at the return of prepare_plan, over what node_modules/.xmas/plan.json
\* can hold
InitVerify ==
    /\ CratesIdle
    /\ plan \in VerifyPlans
    /\ manifest \in VerifyManifests
    /\ Prepared(plan, manifest)
    /\ snapshot \in VerifySnapshots
    /\ disallow = FALSE
    /\ store = NoStore
    /\ dirs = NoDirs
    /\ bins = {}
    /\ run = 1
    /\ prevResult = "none"
    /\ ProcessInit
    /\ PlanPrepared

NextVerify == InstallStart

SpecVerify == InitVerify /\ [][NextVerify]_vars

----------------------------------------------------------------------------
(* install up to the return of prepare_plan, and update *)

NoPlan == [n \in {} |-> Dep("", 0)]

\* what the commands below leave alone
placedVars == <<store, dirs, bins, snapshot>>
laterVars == <<disallow, queued, senders, chan, warm, flight, pump, permits, linked,
               execResult, prevResult, scriptVars, whyVars, crateVars>>

\* the errors of the resolver and of the lockfile
ResolutionErrors ==
    {"network", "not found", "no satisfying version", "unresolved", "lockfile"}

\* the command returns the error e
ReturnErr(e) ==
    /\ result' = e
    /\ pc' = "done"

\* cmd_update, lines 17-19
UpdateImmutable ==
    /\ pc = "read_package"
    /\ cmd = "update"
    /\ immutable
    /\ ReturnErr("immutable")
    /\ UNCHANGED <<plan, manifest, argVars, lockfile, graph, storage, before, buildStack,
                   placedVars, laterVars, run, task, netCalls>>

\* read_package()?: install line 141, cmd_update line 21
ReadPackage ==
    /\ pc = "read_package"
    /\ cmd = "install" \/ ~immutable
    /\ \/ /\ pc' = "init_storage"
          /\ UNCHANGED result
       \/ ReturnErr("package.json")
    /\ UNCHANGED <<plan, manifest, argVars, lockfile, graph, storage, before, buildStack,
                   placedVars, laterVars, run, task, netCalls>>

\* init_storage()? and, in install, read_config()?
InitStorage ==
    /\ pc = "init_storage"
    /\ \/ /\ storage' = TRUE
          /\ pc' = IF cmd = "update" THEN "append" ELSE "load_graph"
          /\ UNCHANGED result
       \/ /\ ReturnErr("io")
          /\ UNCHANGED storage
    /\ UNCHANGED <<plan, manifest, argVars, lockfile, graph, before, buildStack,
                   placedVars, laterVars, run, task, netCalls>>

\* a prepare_plan that appends in immutable mode as well
AppendsAlways(imm) == TRUE

\* prepare_plan, line 41
Appends(imm) == ~imm

\* prepare_plan, line 39
LoadGraphFromLockfile ==
    /\ pc = "load_graph"
    /\ graph' = LoadGraph(lockfile)
    /\ pc' = IF Appends(immutable) THEN "append" ELSE "build_trees"
    /\ UNCHANGED <<plan, manifest, argVars, lockfile, storage, before, buildStack,
                   placedVars, laterVars, run, task, netCalls, result>>

\* an update that starts from the graph of xmas.lock
StartGraphLoaded(l) == LoadGraph(l)

\* cmd_update, line 27
StartGraph(l) == EmptyGraph

\* the graph append works on: the loaded one in install, a new one in update
AppendBase == IF cmd = "update" THEN StartGraph(lockfile) ELSE graph

\* an append whose error does not stop the graph from being written
GraphAppendPersisting ==
    /\ pc = "append"
    /\ \E r \in AppendResults(registry, AppendBase, manifest) :
        /\ graph' = r.relations
        /\ IF r.error = "none"
           THEN pc' = "write_lock" /\ UNCHANGED <<result, lockfile>>
           ELSE ReturnErr(r.error) /\ lockfile' = LockfileNew(r.relations)
    /\ UNCHANGED <<plan, manifest, argVars, storage, before, buildStack,
                   placedVars, laterVars, run, task, netCalls>>

\* graph.append(package.iter_all(), ..).await?: prepare_plan line 42,
\* cmd_update line 28
GraphAppend ==
    /\ pc = "append"
    /\ \E r \in AppendResults(registry, AppendBase, manifest) :
        /\ graph' = r.relations
        /\ IF r.error = "none"
           THEN pc' = "write_lock" /\ UNCHANGED result
           ELSE ReturnErr(r.error)
    /\ UNCHANGED <<plan, manifest, argVars, lockfile, storage, before, buildStack,
                   placedVars, laterVars, run, task, netCalls>>

\* write_json("xmas.lock", Lockfile::new(graph.clone())).await?: prepare_plan
\* line 43, cmd_update lines 29-39
WriteLockfile ==
    /\ pc = "write_lock"
    /\ \/ /\ lockfile' = LockfileNew(graph)
          /\ IF cmd = "update"
             THEN result' = "Ok" /\ pc' = "done"
             ELSE pc' = "build_trees" /\ UNCHANGED result
       \/ /\ ReturnErr("lockfile")
          /\ UNCHANGED lockfile
    /\ UNCHANGED <<plan, manifest, argVars, graph, storage, before, buildStack,
                   placedVars, laterVars, run, task, netCalls>>

\* prepare_plan has its plan: install goes on from its line 149
PlanReturned(p) ==
    /\ pc' = "start"
    /\ task' = ProcessStart(p).task
    /\ netCalls' = ProcessStart(p).netCalls

\* a build_trees that leaves out the requirements the graph has no relation for
BuildRootsLenient ==
    /\ pc = "build_trees"
    /\ LET roots == UNION {ResolveReq(graph, req) : req \in manifest}
           p == [n \in {<<d.name>> : d \in roots} |->
                   CHOOSE d \in roots : d.name = n[1]]
       IN  /\ plan' = p
           /\ buildStack' = DOMAIN p
           /\ UNCHANGED result
           /\ IF roots = {}
              THEN PlanReturned(p)
              ELSE pc' = "unroll" /\ UNCHANGED <<task, netCalls>>
    /\ UNCHANGED <<manifest, argVars, lockfile, graph, storage, before,
                   placedVars, laterVars, run>>

\* build_trees, the roots: a tree per requirement of the manifest, an error
\* for a requirement the graph has no relation for; Plan::new keys the trees
\* by the name of their root
BuildRoots ==
    /\ pc = "build_trees"
    /\ IF \E req \in manifest : ResolveReq(graph, req) = {}
       THEN /\ ReturnErr("unresolved")
            /\ UNCHANGED <<plan, buildStack, task, netCalls>>
       ELSE LET roots == UNION {ResolveReq(graph, req) : req \in manifest}
                p == [n \in {<<d.name>> : d \in roots} |->
                        CHOOSE d \in roots : d.name = n[1]]
            IN  /\ plan' = p
                /\ buildStack' = DOMAIN p
                /\ UNCHANGED result
                /\ IF roots = {}
                   THEN PlanReturned(p)
                   ELSE pc' = "unroll" /\ UNCHANGED <<task, netCalls>>
    /\ UNCHANGED <<manifest, argVars, lockfile, graph, storage, before,
                   placedVars, laterVars, run>>

\* the packages on the branch from the root of a tree down to node n
OnBranch(p, n) == {id(p[SubSeq(n, 1, k)]) : k \in 1..Len(n)}

\* an unrolling that follows every relation, whatever the branch holds
CutNever(p, n, d) == FALSE

\* build_trees: a dependency already on the branch is not unrolled again
Cut(p, n, d) == id(d) \in OnBranch(p, n)

\* build_trees, one node: its children are the dependencies its requirements
\* resolve to in the graph
Unroll(n) ==
    /\ pc = "unroll"
    /\ n \in buildStack
    /\ LET reqs == Requires(plan[n])
       IN  IF \E req \in reqs : ResolveReq(graph, req) = {}
           THEN /\ ReturnErr("unresolved")
                /\ UNCHANGED <<plan, buildStack, task, netCalls>>
           ELSE LET deps == {d \in UNION {ResolveReq(graph, req) : req \in reqs} :
                                ~Cut(plan, n, d)}
                    children == {n \o <<d.name>> : d \in deps}
                    p == [c \in DOMAIN plan \cup children |->
                            IF c \in DOMAIN plan THEN plan[c]
                            ELSE CHOOSE d \in deps : d.name = Last(c)]
                IN  /\ plan' = p
                    /\ buildStack' = (buildStack \ {n}) \cup children
                    /\ UNCHANGED result
                    /\ IF buildStack' = {}
                       THEN PlanReturned(p)
                       ELSE UNCHANGED <<pc, task, netCalls>>
    /\ UNCHANGED <<manifest, argVars, lockfile, graph, storage, before,
                   placedVars, laterVars, run>>

\* the manifests of the project: at most one requirement per name
ResolveManifests ==
    { {Requirement("a", {1, 2})},
      {Requirement("a", {1}), Requirement("b", {1})},
      {Requirement("c", {1})},
      {Requirement("a", {2})},
      {Requirement("a", {3})},
      {Requirement("zz", {1})} }

\* a command starts
CommandStart(c, imm, m, reg) ==
    /\ cmd = c
    /\ immutable = imm
    /\ manifest = m
    /\ registry = reg
    /\ plan = NoPlan
    /\ graph = EmptyGraph
    /\ buildStack = {}
    /\ pc = "read_package"
    /\ result = "none"
    /\ task = ProcessStart(NoPlan).task
    /\ netCalls = ProcessStart(NoPlan).netCalls

\* the next command in the same project: package.json may have been edited
\* and the registry may have published more
NextCommand ==
    /\ pc \in {"done", "start"}
    /\ run < MaxRuns
    /\ run' = run + 1
    /\ \E c \in {"install", "update"}, imm \in BOOLEAN, m \in ResolveManifests,
          reg \in {x \in Registries : registry \subseteq x} :
        /\ cmd' = c
        /\ immutable' = imm
        /\ manifest' = m
        /\ registry' = reg
    /\ plan' = NoPlan
    /\ graph' = EmptyGraph
    /\ buildStack' = {}
    /\ pc' = "read_package"
    /\ result' = "none"
    /\ task' = ProcessStart(NoPlan).task
    /\ netCalls' = ProcessStart(NoPlan).netCalls
    /\ before' = [storage |-> storage, lockfile |-> lockfile]
    /\ UNCHANGED <<lockfile, storage, target, placedVars, laterVars>>

\* a new project: no xmas.lock, no node_modules, no .xmas
InitPrepare ==
    /\ CratesIdle
    /\ \E c \in {"install", "update"}, imm \in BOOLEAN, m \in ResolveManifests,
          reg \in Registries : CommandStart(c, imm, m, reg)
    /\ lockfile = NoLockfile
    /\ storage = FALSE
    /\ before = [storage |-> FALSE, lockfile |-> NoLockfile]
    /\ target = [name |-> "", version |-> 0]
    /\ queue = <<>>
    /\ seen = {}
    /\ expanded = <<>>
    /\ disallow = FALSE
    /\ store = NoStore
    /\ dirs = NoDirs
    /\ bins = {}
    /\ snapshot = {}
    /\ run = 1
    /\ prevResult = "none"
    /\ LET ps == ProcessStart(NoPlan)
       IN  /\ queued = ps.queued
           /\ senders = ps.senders
           /\ chan = ps.chan
           /\ warm = ps.warm
           /\ flight = ps.flight
           /\ pump = ps.pump
           /\ permits = ps.permits
           /\ linked = ps.linked
           /\ execResult = ps.execResult
           /\ workStack = ps.workStack
           /\ treesDone = ps.treesDone
           /\ curDir = ps.curDir
           /\ curNode = ps.curNode
           /\ pending = ps.pending
           /\ visits = ps.visits
           /\ scriptLog = ps.scriptLog

NextPrepare ==
    \/ UpdateImmutable
    \/ ReadPackage
    \/ InitStorage
    \/ LoadGraphFromLockfile
    \/ GraphAppend
    \/ WriteLockfile
    \/ BuildRoots
    \/ \E n \in buildStack : Unroll(n)
    \/ NextCommand

SpecPrepare == InitPrepare /\ [][NextPrepare]_vars

\* build_trees is a loop of one thread: a step it can take, it takes
FairBuildTrees ==
    /\ WF_vars(BuildRoots)
    /\ WF_vars(\E n \in buildStack : Unroll(n))

SpecBuildTrees == SpecPrepare /\ FairBuildTrees

----------------------------------------------------------------------------
(* why *)

\* build_map: the requirements whose dependency requires the package pair,
\* or an error when a requirement of a dependency has no relation
BuildMapFails(g) ==
    \E r \in g : \E child_req \in Requires(r[2]) : ResolveReq(g, child_req) = {}

RequiredBy(g, pair) ==
    {r[1] : r \in {q \in g : \E child_req \in Requires(q[2]) :
                                \E d \in ResolveReq(g, child_req) : id(d) = pair}}

\* cmd_why, lines 27-35: the pair given, or a pair per relation of the name
Seeds(g, t) ==
    IF t.version # 0 THEN {<<<<t.name, t.version>>>>}
    ELSE LET rels == {r \in g : r[1].name = t.name}
         IN  {[j \in DOMAIN o |-> <<t.name, o[j][2].version>>] : o \in Orders(rels)}

\* cmd_why, lines 18-39
WhyStart ==
    /\ pc = "why"
    /\ graph' = LoadGraph(lockfile)
    /\ IF BuildMapFails(graph')
       THEN ReturnErr("unresolved") /\ UNCHANGED queue
       ELSE \E q \in Seeds(graph', target) :
               /\ queue' = q
               /\ IF q = <<>>
                  THEN ReturnErr("not used")
                  ELSE pc' = "walk" /\ UNCHANGED result
    /\ UNCHANGED <<plan, manifest, argVars, lockfile, storage, before, buildStack,
                   crateVars,
                   placedVars, disallow, queued, senders, chan, warm, flight, pump,
                   permits, linked, execResult, prevResult, scriptVars, run, task,
                   netCalls, seen, expanded>>

\* a walk that takes every pair for a new one
IsNewAlways(s, pair) == TRUE

\* seen.insert(..) returns true, line 42
IsNew(s, pair) == pair \notin s

\* cmd_why, lines 41-72: one turn of the loop
WhyStep ==
    /\ pc = "walk"
    /\ queue # <<>>
    /\ LET pair == Head(queue)
           required_by == UNION {ResolveReq(graph, x) : x \in RequiredBy(graph, pair)}
       IN  IF IsNew(seen, pair)
           THEN /\ seen' = seen \cup {pair}
                /\ expanded' = Append(expanded, pair)
                /\ IF RequiredBy(graph, pair) # {}
                   THEN /\ \E o \in Orders(required_by) :
                             queue' = Tail(queue) \o [j \in DOMAIN o |-> id(o[j])]
                        /\ UNCHANGED <<pc, result>>
                   ELSE IF \E x \in manifest : x.name = pair[1] /\ pair[2] \in x.range
                   THEN /\ queue' = Tail(queue)
                        /\ UNCHANGED <<pc, result>>
                   ELSE /\ ReturnErr("not used")
                        /\ queue' = Tail(queue)
           ELSE /\ queue' = Tail(queue)
                /\ UNCHANGED <<seen, expanded, pc, result>>
    /\ UNCHANGED <<plan, manifest, argVars, lockfile, graph, storage, before, buildStack,
                   crateVars,
                   placedVars, disallow, queued, senders, chan, warm, flight, pump,
                   permits, linked, execResult, prevResult, scriptVars, run, task,
                   netCalls>>

\* cmd_why, lines 74-76
WhyEnd ==
    /\ pc = "walk"
    /\ queue = <<>>
    /\ result' = "Ok"
    /\ pc' = "done"
    /\ UNCHANGED <<plan, manifest, argVars, lockfile, graph, storage, before, buildStack,
                   crateVars,
                   placedVars, disallow, queued, senders, chan, warm, flight, pump,
                   permits, linked, execResult, prevResult, scriptVars, run, task,
                   netCalls, whyVars>>

\* the lockfiles install and update write
WrittenLockfiles ==
    {LockfileNew(g) : g \in UNION {ResolutionsOf(reg, m) :
                                      reg \in Registries, m \in ResolveManifests}}

WhyTargets == [name : {"a", "b", "c", "zz"}, version : {0, 1, 2}]

InitWhy ==
    /\ CratesIdle
    /\ cmd = "why"
    /\ immutable = FALSE
    /\ registry = RegistryNow
    /\ target \in WhyTargets
    /\ manifest \in ResolveManifests
    /\ lockfile \in WrittenLockfiles \cup {NoLockfile}
    /\ before = [storage |-> TRUE, lockfile |-> lockfile]
    /\ storage = TRUE
    /\ plan = NoPlan
    /\ graph = EmptyGraph
    /\ buildStack = {}
    /\ queue = <<>>
    /\ seen = {}
    /\ expanded = <<>>
    /\ disallow = FALSE
    /\ store = NoStore
    /\ dirs = NoDirs
    /\ bins = {}
    /\ snapshot = {}
    /\ run = 1
    /\ prevResult = "none"
    /\ pc = "why"
    /\ LET ps == ProcessStart(NoPlan)
       IN  /\ queued = ps.queued
           /\ senders = ps.senders
           /\ chan = ps.chan
           /\ warm = ps.warm
           /\ task = ps.task
           /\ flight = ps.flight
           /\ pump = ps.pump
           /\ permits = ps.permits
           /\ netCalls = ps.netCalls
           /\ linked = ps.linked
           /\ execResult = ps.execResult
           /\ result = ps.result
           /\ workStack = ps.workStack
           /\ treesDone = ps.treesDone
           /\ curDir = ps.curDir
           /\ curNode = ps.curNode
           /\ pending = ps.pending
           /\ visits = ps.visits
           /\ scriptLog = ps.scriptLog

NextWhy ==
    \/ WhyStart
    \/ WhyStep
    \/ WhyEnd

\* cmd_why is one thread: a step it can take, it takes
FairWhy ==
    /\ WF_vars(WhyStart)
    /\ WF_vars(WhyStep)
    /\ WF_vars(WhyEnd)

SpecWhy == InitWhy /\ [][NextWhy]_vars /\ FairWhy

----------------------------------------------------------------------------
(* vsys: the file system table FsVTable and the handles of open *)

\* the package manager is not running
PackageManagerIdle ==
    /\ plan = NoPlan
    /\ manifest = {}
    /\ disallow = FALSE
    /\ store = NoStore
    /\ dirs = NoDirs
    /\ bins = {}
    /\ snapshot = {}
    /\ run = 1
    /\ prevResult = "none"
    /\ ProcessInit
    /\ PlanPrepared
    /\ CleanIdle

\* the variables of the package manager
managerVars ==
    <<plan, manifest, disallow, store, dirs, bins, snapshot, run, pc, queued, senders,
      chan, warm, task, flight, pump, permits, netCalls, linked, execResult, result,
      prevResult, workStack, treesDone, curDir, curNode, pending, visits, scriptLog,
      resolveVars, cleanVars>>

\* longest file of the host file system, in bytes
MaxFileLen == 1

\* the entries of the table, lines 301-343
Entries ==
    {"read", "read_to_string", "stat", "lstat", "read_dir", "read_link", "exists",
     "is_file", "is_dir", "write", "append", "create_dir", "create_dir_all",
     "remove_file", "remove_dir", "remove_dir_all", "rename", "copy", "symlink",
     "truncate", "access", "mkdtemp", "set_permissions", "set_mode", "chown",
     "canonicalize", "open"}

\* FsVTable::default(): every entry is its default_ function
DefaultTable == [e \in Entries |-> "default"]

\* FsVTable::deny_all(): exists, is_file and is_dir answer false, the rest fail
DenyAllTable ==
    [e \in Entries |-> IF e \in {"exists", "is_file", "is_dir"} THEN "false" ELSE "denied"]

\* the entries read_only() replaces, lines 430-444
ReadOnlyReplaced ==
    {"write", "append", "create_dir", "create_dir_all", "remove_file", "remove_dir",
     "remove_dir_all", "rename", "copy", "symlink", "truncate", "mkdtemp",
     "set_permissions", "set_mode", "chown"}

\* FsVTable::read_only(): the default table with the replaced entries failing
ReadOnlyTable ==
    [e \in Entries |-> IF e \in ReadOnlyReplaced THEN "denied" ELSE DefaultTable[e]]

\* the table in use
Table(v) ==
    CASE v = "default" -> DefaultTable
      [] v = "read_only" -> ReadOnlyTable
      [] v = "deny_all" -> DenyAllTable

\* what the host file system holds at a path
File(l, m, o) == [kind |-> "file", len |-> l, mode |-> m, owner |-> o, target |-> ""]
Directory(m, o) == [kind |-> "dir", len |-> 0, mode |-> m, owner |-> o, target |-> ""]
Link(t) == [kind |-> "link", len |-> 0, mode |-> 0, owner |-> 0, target |-> t]

\* the path a path resolves to through symbolic links ("loop" for a cycle)
RECURSIVE FollowN(_, _, _)
FollowN(d, p, fuel) ==
    IF d[p].kind # "link" THEN p
    ELSE IF fuel = 0 THEN "loop"
    ELSE FollowN(d, d[p].target, fuel - 1)

Follow(d, p) == FollowN(d, p, Cardinality(FsPaths))

\* the entry a path resolves to
At(d, p) == IF Follow(d, p) = "loop" THEN NoEntry ELSE d[Follow(d, p)]

Smaller(a, b) == IF a < b THEN a ELSE b
Larger(a, b) == IF a < b THEN b ELSE a

\* what a call returns, and the file system it leaves
Ret(st, d) == [status |-> st, data |-> 0, text |-> "", disk |-> d]
RetData(n, t, d) == [status |-> "Ok", data |-> n, text |-> t, disk |-> d]
Bool(b, d) == Ret(IF b THEN "true" ELSE "false", d)

\* the error of a path that resolves to nothing usable
Missing(d, p) == IF Follow(d, p) = "loop" THEN "FilesystemLoop" ELSE "NotFound"

\* the error of opening the entry at a path for writing ("" for none), as
\* std::fs::OpenOptions::open reports it
WriteError(d, p) ==
    CASE Follow(d, p) = "loop" -> "FilesystemLoop"
      [] At(d, p).kind = "dir" -> "IsADirectory"
      [] At(d, p).kind = "file" /\ At(d, p).mode = 1 -> "PermissionDenied"
      [] OTHER -> ""

\* the entry a write of l bytes in all leaves at a path that could be opened
Written(d, p, l) ==
    [d EXCEPT ![Follow(d, p)] =
        IF At(d, p).kind = "file" THEN File(l, At(d, p).mode, At(d, p).owner)
        ELSE File(l, 0, 0)]

\* the default_ functions that read, lines 451-506, 574-576 and 594-661
DefaultRead(e, d, p, v) ==
    LET t == At(d, p) IN
    CASE e \in {"read", "read_to_string"} ->
            IF t.kind = "file" THEN RetData(t.len, "", d)
            ELSE IF t.kind = "dir" THEN Ret("IsADirectory", d)
            ELSE Ret(Missing(d, p), d)
      [] e = "stat" ->
            IF t.kind = "none" THEN Ret(Missing(d, p), d)
            ELSE RetData(t.len, t.kind, d)
      [] e = "lstat" ->
            IF d[p].kind = "none" THEN Ret("NotFound", d)
            ELSE RetData(d[p].len, d[p].kind, d)
      [] e = "read_dir" ->
            IF t.kind = "dir" THEN RetData(0, "", d)
            ELSE IF t.kind = "file" THEN Ret("NotADirectory", d)
            ELSE Ret(Missing(d, p), d)
      [] e = "read_link" ->
            IF d[p].kind = "link" THEN RetData(0, d[p].target, d)
            ELSE IF d[p].kind = "none" THEN Ret("NotFound", d)
            ELSE Ret("InvalidInput", d)
      [] e = "exists" -> Bool(t.kind # "none", d)
      [] e = "is_file" -> Bool(t.kind = "file", d)
      [] e = "is_dir" -> Bool(t.kind = "dir", d)
      [] e = "access" ->
            IF t.kind = "none" THEN Ret(Missing(d, p), d)
            ELSE IF v = 0 THEN Ret("Ok", d)
            ELSE IF t.mode = 1 THEN Ret("PermissionDenied", d)
            ELSE Ret("Ok", d)
      [] e = "canonicalize" ->
            IF t.kind = "none" THEN Ret(Missing(d, p), d)
            ELSE RetData(0, Follow(d, p), d)

\* the default_ functions that change the file system, lines 508-592 and 663-689
DefaultChange(e, d, p, q, v) ==
    LET t == At(d, p) IN
    CASE e = "write" ->
            IF WriteError(d, p) # "" THEN Ret(WriteError(d, p), d)
            ELSE Ret("Ok", Written(d, p, v))
      [] e = "append" ->
            IF WriteError(d, p) # "" THEN Ret(WriteError(d, p), d)
            ELSE Ret("Ok", Written(d, p, Smaller(t.len + v, MaxFileLen)))
      [] e = "create_dir" ->
            IF d[p].kind # "none" THEN Ret("AlreadyExists", d)
            ELSE Ret("Ok", [d EXCEPT ![p] = Directory(0, 0)])
      [] e = "create_dir_all" ->
            IF t.kind = "dir" THEN Ret("Ok", d)
            ELSE IF d[p].kind # "none" THEN Ret("AlreadyExists", d)
            ELSE Ret("Ok", [d EXCEPT ![p] = Directory(0, 0)])
      [] e = "remove_file" ->
            IF d[p].kind \in {"file", "link"} THEN Ret("Ok", [d EXCEPT ![p] = NoEntry])
            ELSE IF d[p].kind = "dir" THEN Ret("IsADirectory", d)
            ELSE Ret("NotFound", d)
      [] e = "remove_dir" ->
            IF d[p].kind = "dir" THEN Ret("Ok", [d EXCEPT ![p] = NoEntry])
            ELSE IF d[p].kind = "none" THEN Ret("NotFound", d)
            ELSE Ret("NotADirectory", d)
      [] e = "remove_dir_all" ->
            IF d[p].kind \in {"dir", "link"} THEN Ret("Ok", [d EXCEPT ![p] = NoEntry])
            ELSE IF d[p].kind = "none" THEN Ret("NotFound", d)
            ELSE Ret("NotADirectory", d)
      [] e = "rename" ->
            IF d[p].kind = "none" THEN Ret("NotFound", d)
            ELSE IF p = q THEN Ret("Ok", d)
            ELSE IF d[q].kind = "dir" /\ d[p].kind # "dir" THEN Ret("IsADirectory", d)
            ELSE IF d[p].kind = "dir" /\ d[q].kind \notin {"none", "dir"}
                 THEN Ret("NotADirectory", d)
            ELSE Ret("Ok", [d EXCEPT ![q] = d[p], ![p] = NoEntry])
      [] e = "copy" ->
            IF t.kind = "none" THEN Ret(Missing(d, p), d)
            ELSE IF t.kind = "dir" THEN Ret("InvalidInput", d)
            ELSE IF WriteError(d, q) # "" THEN Ret(WriteError(d, q), d)
            ELSE IF Follow(d, p) = Follow(d, q)
                 THEN RetData(0, "", [d EXCEPT ![Follow(d, q)] = File(0, t.mode, t.owner)])
            ELSE RetData(t.len, "",
                         [d EXCEPT ![Follow(d, q)] =
                             File(t.len, t.mode,
                                  IF At(d, q).kind = "file" THEN At(d, q).owner ELSE 0)])
      [] e = "symlink" ->
            IF d[q].kind # "none" THEN Ret("AlreadyExists", d)
            ELSE Ret("Ok", [d EXCEPT ![q] = Link(p)])
      [] e = "truncate" ->
            IF t.kind = "none" THEN Ret(Missing(d, p), d)
            ELSE IF WriteError(d, p) # "" THEN Ret(WriteError(d, p), d)
            ELSE Ret("Ok", Written(d, p, v))
      [] e = "mkdtemp" ->
            IF \A f \in FsPaths : d[f].kind # "none" THEN Ret("StorageFull", d)
            ELSE LET f == CHOOSE f \in FsPaths : d[f].kind = "none"
                 IN RetData(0, f, [d EXCEPT ![f] = Directory(0, 0)])
      [] e \in {"set_permissions", "set_mode"} ->
            IF t.kind = "none" THEN Ret(Missing(d, p), d)
            ELSE Ret("Ok", [d EXCEPT ![Follow(d, p)].mode = v])
      [] e = "chown" ->
            IF t.kind = "none" THEN Ret(Missing(d, p), d)
            ELSE Ret("Ok", [d EXCEPT ![Follow(d, p)].owner = v])

\* the entries whose default_ function only reads
ReadEntries ==
    {"read", "read_to_string", "stat", "lstat", "read_dir", "read_link", "exists",
     "is_file", "is_dir", "access", "canonicalize"}

\* the default_ function of an entry other than open
DefaultCall(e, d, p, q, v) ==
    IF e \in ReadEntries THEN DefaultRead(e, d, p, v) ELSE DefaultChange(e, d, p, q, v)

\* a call of an entry other than open through the table in use
Call(e, p, q, v) ==
    /\ e \in Entries \ {"open"}
    /\ LET impl == Table(vtable)[e]
           r == CASE impl = "denied" -> Ret("PermissionDenied", disk)
                  [] impl = "false" -> Bool(FALSE, disk)
                  [] impl = "default" -> DefaultCall(e, disk, p, q, v)
       IN /\ disk' = r.disk
          /\ fsResult' = [status |-> r.status, data |-> r.data, text |-> r.text]
    /\ UNCHANGED <<vtable, handle>>
    /\ UNCHANGED <<managerVars, permVars, queueVars, ownerVars>>

\* OpenOptions, lines 96-104, with the flags in s set
Options(s) ==
    [read |-> "read" \in s, write |-> "write" \in s, append |-> "append" \in s,
     truncate |-> "truncate" \in s, create |-> "create" \in s,
     create_new |-> "create_new" \in s]

\* the OpenOptions open is called with
OpenOptions ==
    { Options({"read"}), Options({"write"}), Options({"read", "write", "create"}),
      Options({"write", "create", "truncate"}), Options({"append", "create"}),
      Options({"write", "create_new"}), Options({"read", "truncate"}), Options({}) }

\* the combinations std::fs::OpenOptions::open refuses with InvalidInput
InvalidOptions(o) ==
    \/ ~o.read /\ ~o.write /\ ~o.append
    \/ ~o.write /\ ~o.append /\ (o.truncate \/ o.create \/ o.create_new)
    \/ o.append /\ o.truncate /\ ~o.create_new

\* the handle open returns for a path
Opened(f, o) ==
    [open |-> TRUE, path |-> f, read |-> o.read, write |-> o.write \/ o.append,
     append |-> o.append]

\* default_open, lines 691-711: [status, disk, handle]
DefaultOpen(d, p, o) ==
    LET t == At(d, p)
        f == Follow(d, p)
        fail(st) == [status |-> st, disk |-> d, handle |-> NoHandle]
    IN
    IF InvalidOptions(o) THEN fail("InvalidInput")
    ELSE IF o.create_new
         THEN IF d[p].kind # "none" THEN fail("AlreadyExists")
              ELSE [status |-> "Ok", disk |-> [d EXCEPT ![p] = File(0, 0, 0)],
                    handle |-> Opened(p, o)]
    ELSE IF f = "loop" THEN fail("FilesystemLoop")
    ELSE IF t.kind = "none"
         THEN IF o.create
              THEN [status |-> "Ok", disk |-> [d EXCEPT ![f] = File(0, 0, 0)],
                    handle |-> Opened(f, o)]
              ELSE fail("NotFound")
    ELSE IF (o.write \/ o.append) /\ WriteError(d, p) # "" THEN fail(WriteError(d, p))
    ELSE [status |-> "Ok",
          disk |-> IF o.truncate /\ t.kind = "file"
                   THEN [d EXCEPT ![f] = File(0, t.mode, t.owner)] ELSE d,
          handle |-> Opened(f, o)]

\* a call of open through the table in use (one handle is held at a time)
CallOpen(p, o) ==
    /\ ~handle.open
    /\ LET r == IF Table(vtable)["open"] = "denied"
                THEN [status |-> "PermissionDenied", disk |-> disk, handle |-> NoHandle]
                ELSE DefaultOpen(disk, p, o)
       IN /\ disk' = r.disk
          /\ handle' = r.handle
          /\ fsResult' = [status |-> r.status, data |-> 0, text |-> ""]
    /\ UNCHANGED vtable
    /\ UNCHANGED <<managerVars, permVars, queueVars, ownerVars>>

\* the result of an operation of the handle
HandleResult(st, n) == [status |-> st, data |-> n, text |-> ""]

\* FsHandle::read, lines 180-182 and 248-251
HandleRead ==
    /\ handle.open
    /\ fsResult' = IF handle.read /\ disk[handle.path].kind = "file"
                   THEN HandleResult("Ok", disk[handle.path].len)
                   ELSE HandleResult("Err", 0)
    /\ UNCHANGED <<vtable, disk, handle>>
    /\ UNCHANGED <<managerVars, permVars, queueVars, ownerVars>>

\* FsHandle::write, lines 184-186 and 253-256: v bytes
HandleWrite(v) ==
    /\ handle.open
    /\ LET t == disk[handle.path] IN
       IF handle.write /\ t.kind = "file"
       THEN /\ disk' = [disk EXCEPT ![handle.path].len =
                          IF handle.append THEN Smaller(t.len + v, MaxFileLen)
                          ELSE Larger(t.len, v)]
            /\ fsResult' = HandleResult("Ok", v)
       ELSE /\ fsResult' = HandleResult("Err", 0)
            /\ UNCHANGED disk
    /\ UNCHANGED <<vtable, handle>>
    /\ UNCHANGED <<managerVars, permVars, queueVars, ownerVars>>

\* FsHandle::set_len, lines 204-206 and 273-275
HandleSetLen(v) ==
    /\ handle.open
    /\ IF handle.write /\ disk[handle.path].kind = "file"
       THEN /\ disk' = [disk EXCEPT ![handle.path].len = v]
            /\ fsResult' = HandleResult("Ok", 0)
       ELSE /\ fsResult' = HandleResult("Err", 0)
            /\ UNCHANGED disk
    /\ UNCHANGED <<vtable, handle>>
    /\ UNCHANGED <<managerVars, permVars, queueVars, ownerVars>>

\* FsHandle::set_permissions and set_mode, lines 208-215 and 277-289
HandleSetPermissions(v) ==
    /\ handle.open
    /\ IF disk[handle.path].kind \in {"file", "dir"}
       THEN /\ disk' = [disk EXCEPT ![handle.path].mode = v]
            /\ fsResult' = HandleResult("Ok", 0)
       ELSE /\ fsResult' = HandleResult("Ok", 0)
            /\ UNCHANGED disk
    /\ UNCHANGED <<vtable, handle>>
    /\ UNCHANGED <<managerVars, permVars, queueVars, ownerVars>>

\* the FsHandle is dropped
HandleDrop ==
    /\ handle.open
    /\ handle' = NoHandle
    /\ UNCHANGED <<vtable, disk, fsResult>>
    /\ UNCHANGED <<managerVars, permVars, queueVars, ownerVars>>

\* the file systems the calls start from
InitDisks ==
    { NoDisk,
      [NoDisk EXCEPT !["x"] = File(1, 0, 0)],
      [NoDisk EXCEPT !["x"] = File(1, 1, 0), !["y"] = Directory(0, 0)],
      [NoDisk EXCEPT !["x"] = Link("y"), !["y"] = File(0, 0, 0)] }

InitVsys ==
    /\ vtable \in {"default", "read_only", "deny_all"}
    /\ disk \in InitDisks
    /\ handle = NoHandle
    /\ fsResult = NoFsResult
    /\ PermIdle /\ QueueIdle /\ OwnerIdle
    /\ PackageManagerIdle

\* the arguments an entry is called with: the ones it does not take are fixed
Arguments(e) ==
    [p : FsPaths,
     q : IF e \in {"rename", "copy", "symlink"} THEN FsPaths ELSE {"x"},
     v : IF e \in {"write", "append", "truncate", "access", "set_permissions",
                   "set_mode", "chown"}
         THEN 0..MaxFileLen ELSE {0}]

NextVsys ==
    \/ \E e \in Entries \ {"open"} : \E a \in Arguments(e) : Call(e, a.p, a.q, a.v)
    \/ \E p \in FsPaths, o \in OpenOptions : CallOpen(p, o)
    \/ HandleRead
    \/ \E v \in 0..MaxFileLen : HandleWrite(v)
    \/ \E v \in 0..MaxFileLen : HandleSetLen(v)
    \/ \E v \in 0..1 : HandleSetPermissions(v)
    \/ HandleDrop

SpecVsys == InitVsys /\ [][NextVsys]_vars

----------------------------------------------------------------------------
(* vsys: Permissions::check_net (vsys/src/permissions.rs) *)

\* a string is the sequence of its characters
Str2(a, b) == <<a, b>>
Dot == "."
Star == "*"

\* longest host name and longest suffix of a wildcard item, in characters
MaxHostLen == 3
MaxItems == 2

Letters == {"a", "b"}

\* the strings over a set of characters, of a length from 1 to n
RECURSIVE Strings(_, _)
Strings(chars, n) ==
    IF n = 0 THEN {}
    ELSE LET shorter == Strings(chars, n - 1)
         IN {<<c>> : c \in chars} \cup {Append(s, c) : s \in shorter, c \in chars}

\* the host names check_net is called with: labels of letters joined by dots
Hosts ==
    {h \in Strings(Letters \cup {Dot}, MaxHostLen) :
        /\ h[1] # Dot
        /\ h[Len(h)] # Dot
        /\ \A i \in 1..(Len(h) - 1) : ~(h[i] = Dot /\ h[i + 1] = Dot)}

\* the items of a list: host names and the wildcards "*." + host name
Items ==
    {h \in Hosts : Len(h) <= 2} \cup {<<"a", Dot, "b">>}
        \cup {<<Star, Dot>> \o h : h \in {g \in Hosts : Len(g) <= 1} \cup {<<"a", Dot, "b">>}}

\* the lists of at most MaxItems items
ItemLists == UNION {[1..n -> Items] : n \in 0..MaxItems}

\* str::starts_with and str::ends_with
StartsWith(s, pre) == Len(pre) <= Len(s) /\ SubSeq(s, 1, Len(pre)) = pre
EndsWith(s, suf) == Len(suf) <= Len(s) /\ SubSeq(s, Len(s) - Len(suf) + 1, Len(s)) = suf

\* &item[k..] of the source, counting from zero: the item without its first k characters
From(item, k) == SubSeq(item, k + 1, Len(item))

\* an item test that matches every name ending in the suffix without its dot
ItemMatchesNoDot(item, h) ==
    IF StartsWith(item, <<Star, Dot>>)
    THEN EndsWith(h, From(item, 2)) \/ h = From(item, 2)
    ELSE item = h

\* the test of one item in the loop of check_host, lines 102-110
ItemMatches(item, h) ==
    IF StartsWith(item, <<Star, Dot>>)
    THEN EndsWith(h, From(item, 1)) \/ h = From(item, 2)
    ELSE item = h

\* the loop of check_host from the i-th item on, lines 101-114
RECURSIVE CheckFrom(_, _, _, _)
CheckFrom(isWhitelist, items, i, h) ==
    IF i > Len(items) THEN ~isWhitelist
    ELSE IF ItemMatches(items[i], h) THEN isWhitelist
    ELSE CheckFrom(isWhitelist, items, i + 1, h)

\* BlackOrWhiteList::check_host, lines 94-115
CheckHost(list, h) == CheckFrom(list.kind = "WhiteList", list.items, 1, h)

\* BlackOrWhiteList::default(), lines 17-22, and allow_all()
DefaultList == [kind |-> "WhiteList", items |-> <<>>]
AllowAllList == [kind |-> "BlackList", items |-> <<>>]

\* the bool check_net returns
BoolName(b) == IF b THEN "true" ELSE "false"

\* Permissions::check_net
CheckNet ==
    /\ netResult = "none"
    /\ netResult' = BoolName(CheckHost(net, host))
    /\ UNCHANGED <<net, host>>
    /\ UNCHANGED <<managerVars, vsysVars, queueVars, ownerVars>>

\* another check with the same permissions
NextHost(h) ==
    /\ netResult # "none"
    /\ host' = h
    /\ netResult' = "none"
    /\ UNCHANGED net
    /\ UNCHANGED <<managerVars, vsysVars, queueVars, ownerVars>>

InitPermissions ==
    /\ net \in [kind : {"WhiteList", "BlackList"}, items : ItemLists]
    /\ host \in Hosts
    /\ netResult = "none"
    /\ VsysIdle /\ QueueIdle /\ OwnerIdle
    /\ PackageManagerIdle

NextPermissions ==
    \/ CheckNet
    \/ \E h \in Hosts : NextHost(h)

SpecPermissions == InitPermissions /\ [][NextPermissions]_vars

----------------------------------------------------------------------------
(* execute_plan under the scheduling of the tokio runtime *)

\* the runtime polls every spawned task that can go on, every request gets its
\* response or its error, and execute_plan itself is polled
FairExecute ==
    /\ WF_vars(\E r \in Roots(plan) : QueueTree(r))
    /\ WF_vars(DropSend)
    /\ WF_vars(Recv)
    /\ \A n \in DOMAIN PlanNested \cup DOMAIN PlanShared \cup DOMAIN PlanSingle :
          WF_vars(n \in DOMAIN plan /\ TaskInstall(n))
    /\ WF_vars(\E k \in DOMAIN flight : LoaderBegin(k))
    /\ WF_vars(\E k \in DOMAIN flight : LoaderGet(k))
    /\ WF_vars(\E k \in DOMAIN flight : LoaderUnpack(k))
    /\ WF_vars(\E k \in pump : PumpEnd(k))

\* install up to the return of execute_plan
NextExecute ==
    \/ InstallStart
    \/ \E r \in Roots(plan) : QueueTree(r)
    \/ DropSend
    \/ Recv
    \/ \E n \in DOMAIN plan : TaskInstall(n)
    \/ \E k \in DOMAIN flight : LoaderBegin(k)
    \/ \E k \in DOMAIN flight : LoaderGet(k)
    \/ \E k \in DOMAIN flight : LoaderUnpack(k)
    \/ \E k \in pump : PumpEnd(k)

\* one run of install in a new project, execute_plan scheduled fairly
SpecExecute == Init /\ [][NextExecute]_vars /\ FairExecute

----------------------------------------------------------------------------
(* install run again after the plan has changed: another version at the same
   target path *)

\* a@1 with b below it, and a@2 with c below it
PlanOldVersion ==
    (<<"a">> :> Dep("a", 1)) @@ (<<"a", "b">> :> Dep("b", 1))
PlanNewVersion ==
    (<<"a">> :> Dep("a", 2)) @@ (<<"a", "c">> :> Dep("c", 1))

VersionPlans == {PlanOldVersion, PlanNewVersion}

\* install is run again over the files the previous run left, the resolver
\* having returned the plan p
NewRunWith(p) ==
    /\ pc = "done"
    /\ run < MaxRuns
    /\ run' = run + 1
    /\ prevResult' = IF ScriptFailed THEN "ScriptErr" ELSE result
    /\ plan' = p
    /\ manifest' = ManifestOf(p, "Range")
    /\ UNCHANGED <<disallow, resolveVars, crateVars, fsVars>>
    /\ LET ps == ProcessStart(p)
       IN  /\ pc' = ps.pc
           /\ queued' = ps.queued
           /\ senders' = ps.senders
           /\ chan' = ps.chan
           /\ warm' = ps.warm
           /\ task' = ps.task
           /\ flight' = ps.flight
           /\ pump' = ps.pump
           /\ permits' = ps.permits
           /\ netCalls' = ps.netCalls
           /\ linked' = ps.linked
           /\ execResult' = ps.execResult
           /\ result' = ps.result
           /\ workStack' = ps.workStack
           /\ treesDone' = ps.treesDone
           /\ curDir' = ps.curDir
           /\ curNode' = ps.curNode
           /\ pending' = ps.pending
           /\ visits' = ps.visits
           /\ scriptLog' = ps.scriptLog

InitReinstall ==
    /\ CratesIdle
    /\ plan \in VersionPlans
    /\ manifest = ManifestOf(plan, "Range")
    /\ disallow = TRUE
    /\ store = NoStore
    /\ dirs = NoDirs
    /\ bins = {}
    /\ snapshot = {}
    /\ run = 1
    /\ prevResult = "none"
    /\ ProcessInit
    /\ PlanPrepared

NextReinstall ==
    \/ InstallStart
    \/ \E r \in Roots(plan) : QueueTree(r)
    \/ DropSend
    \/ Recv
    \/ \E n \in DOMAIN plan : TaskInstall(n)
    \/ \E k \in DOMAIN flight : LoaderBegin(k)
    \/ \E k \in DOMAIN flight : LoaderGet(k)
    \/ \E k \in DOMAIN flight : LoaderUnpack(k)
    \/ \E k \in pump : PumpEnd(k)
    \/ SetupBins
    \/ WriteSnapshot
    \/ \E p \in VersionPlans : NewRunWith(p)

SpecReinstall == InitReinstall /\ [][NextReinstall]_vars

----------------------------------------------------------------------------
(* rsquickjs: TaskQueue (rsquickjs/core/src/runtime/task_queue.rs) *)

\* calls of listen in a behaviour
MaxListens == 2

\* push, line 52: self.inner.tasks.push(future); the task of thread t is t
PushTask(t) ==
    /\ pushPc[t].pc = "idle"
    /\ tasks' = Append(tasks, t)
    /\ pushPc' = [pushPc EXCEPT ![t] = [pc |-> "pushed", seen |-> registered]]
    /\ UNCHANGED <<waker, wakerLock, listenPc, registered, woken, pollVars>>
    /\ UNCHANGED <<managerVars, vsysVars, permVars, ownerVars>>

\* push, line 53: self.inner.waker.try_lock(): the guard when the Mutex is
\* free, None when listen or another push holds it, and then push returns
\* without waking anything
TryLock(t) ==
    /\ pushPc[t].pc = "pushed"
    /\ IF wakerLock = "free"
       THEN /\ wakerLock' = "push"
            /\ pushPc' = [pushPc EXCEPT ![t].pc = "locked"]
       ELSE /\ pushPc' = [pushPc EXCEPT ![t].pc = "done"]
            /\ UNCHANGED wakerLock
    /\ UNCHANGED <<tasks, waker, listenPc, registered, woken, pollVars>>
    /\ UNCHANGED <<managerVars, vsysVars, permVars, ownerVars>>

\* push, lines 54-57: w.take(), waker.wake() if there was one, and the guard
\* is dropped
TakeAndWake(t) ==
    /\ pushPc[t].pc = "locked"
    /\ waker' = 0
    /\ woken' = IF waker # 0 THEN Append(woken, waker) ELSE woken
    /\ wakerLock' = "free"
    /\ pushPc' = [pushPc EXCEPT ![t].pc = "done"]
    /\ UNCHANGED <<tasks, listenPc, registered, pollVars>>
    /\ UNCHANGED <<managerVars, vsysVars, permVars, ownerVars>>

\* listen, line 61: self.inner.waker.lock() returns once the Mutex is free
ListenLock ==
    /\ listenPc = "idle"
    /\ pollPc = "idle"
    /\ registered < MaxListens
    /\ wakerLock = "free"
    /\ wakerLock' = "listen"
    /\ registered' = registered + 1
    /\ listenPc' = "locked"
    /\ UNCHANGED <<tasks, waker, pushPc, woken, pollVars>>
    /\ UNCHANGED <<managerVars, vsysVars, permVars, ownerVars>>

\* listen, line 61: the waker is stored and the guard is dropped
ListenStore ==
    /\ listenPc = "locked"
    /\ waker' = registered
    /\ wakerLock' = "free"
    /\ listenPc' = "idle"
    /\ UNCHANGED <<tasks, pushPc, registered, woken, pollVars>>
    /\ UNCHANGED <<managerVars, vsysVars, permVars, ownerVars>>

\* a poll that drops the tasks that are not ready
PushBackNone(q, pend) == q

\* poll, lines 100-102: the pending tasks are pushed back
PushBack(q, pend) == q \o pend

\* poll, lines 105-117: the value returned
PollValue(hasTasks, progress) ==
    IF ~hasTasks
    THEN IF progress THEN "Done" ELSE "Empty"
    ELSE IF progress THEN "Progress" ELSE "Pending"

\* poll, lines 67-73: Empty is returned for an empty queue; otherwise
\* steal_batch moves a batch of the oldest tasks, one at least, into the worker
PollStart ==
    /\ pollPc = "idle"
    /\ listenPc = "idle"
    /\ IF tasks = <<>>
       THEN /\ pollResult' = [value |-> "Empty", left |-> tasks,
                              before |-> Len(completed), ready |-> 0]
            /\ UNCHANGED <<tasks, pollPc, worker, pendingVec, madeProgress>>
       ELSE \E k \in 1..Len(tasks) :
            /\ worker' = SubSeq(tasks, 1, k)
            /\ tasks' = SubSeq(tasks, k + 1, Len(tasks))
            /\ pollPc' = "polling"
            /\ madeProgress' = FALSE
            /\ pendingVec' = <<>>
            /\ pollResult' = [value |-> "none", left |-> <<>>,
                              before |-> Len(completed), ready |-> 0]
    /\ UNCHANGED <<wakeVars, completed>>
    /\ UNCHANGED <<managerVars, vsysVars, permVars, ownerVars>>

\* poll, lines 92-97: w.pop() and the poll of the task, which is Ready or Pending
PollTask ==
    /\ pollPc = "polling"
    /\ worker # <<>>
    /\ worker' = Tail(worker)
    /\ \/ /\ completed' = Append(completed, Head(worker))
          /\ madeProgress' = TRUE
          /\ UNCHANGED pendingVec
       \/ /\ pendingVec' = Append(pendingVec, Head(worker))
          /\ UNCHANGED <<completed, madeProgress>>
    /\ UNCHANGED <<tasks, wakeVars, pollPc, pollResult>>
    /\ UNCHANGED <<managerVars, vsysVars, permVars, ownerVars>>

\* poll, lines 99-117: the pending tasks go back into the queue and the value
\* is returned
PollEnd ==
    /\ pollPc = "polling"
    /\ worker = <<>>
    /\ tasks' = PushBack(tasks, pendingVec)
    /\ pendingVec' = <<>>
    /\ pollPc' = "idle"
    /\ pollResult' = [value |-> PollValue(tasks' # <<>>, madeProgress),
                      left |-> tasks',
                      before |-> pollResult.before,
                      ready |-> Len(completed) - pollResult.before]
    /\ UNCHANGED <<wakeVars, worker, madeProgress, completed>>
    /\ UNCHANGED <<managerVars, vsysVars, permVars, ownerVars>>

InitTaskQueue ==
    /\ QueueIdle
    /\ VsysIdle /\ PermIdle /\ OwnerIdle
    /\ PackageManagerIdle

NextTaskQueue ==
    \/ \E t \in Pushers : PushTask(t)
    \/ \E t \in Pushers : TryLock(t)
    \/ \E t \in Pushers : TakeAndWake(t)
    \/ ListenLock
    \/ ListenStore
    \/ PollStart
    \/ PollTask
    \/ PollEnd

SpecTaskQueue == InitTaskQueue /\ [][NextTaskQueue]_vars

----------------------------------------------------------------------------
(* core: ContextOwner (core/src/context/owner.rs) *)

\* Clone, lines 42-49: self.ctx.clone() adds one to the strong count of the Arc;
\* only an owner that is not being dropped can be cloned
CloneOwner(c, d) ==
    /\ owners[c] = "alive"
    /\ owners[d] = "none"
    /\ owners' = [owners EXCEPT ![d] = "alive"]
    /\ strongCount' = strongCount + 1
    /\ UNCHANGED dropCalls
    /\ UNCHANGED <<managerVars, vsysVars, permVars, queueVars>>

\* Drop::drop, lines 52-56: drop_context is called when Arc::strong_count reads
\* 1; the count is read while this owner still holds its Arc
DropOwner(c) ==
    /\ owners[c] = "alive"
    /\ owners' = [owners EXCEPT ![c] = "checked"]
    /\ dropCalls' = IF strongCount = 1 THEN dropCalls + 1 ELSE dropCalls
    /\ UNCHANGED strongCount
    /\ UNCHANGED <<managerVars, vsysVars, permVars, queueVars>>

\* after Drop::drop has returned the field ctx is dropped, which takes one off
\* the strong count
DropArc(c) ==
    /\ owners[c] = "checked"
    /\ owners' = [owners EXCEPT ![c] = "dropped"]
    /\ strongCount' = strongCount - 1
    /\ UNCHANGED dropCalls
    /\ UNCHANGED <<managerVars, vsysVars, permVars, queueVars>>

\* ContextOwner::new, lines 22-27: one owner, strong count 1
InitOwner ==
    /\ OwnerIdle
    /\ VsysIdle /\ PermIdle /\ QueueIdle
    /\ PackageManagerIdle

NextOwner ==
    \/ \E c, d \in Clones : CloneOwner(c, d)
    \/ \E c \in Clones : DropOwner(c)
    \/ \E c \in Clones : DropArc(c)

SpecOwner == InitOwner /\ [][NextOwner]_vars

----------------------------------------------------------------------------
(* cmd_clean (commands/clean.rs), between runs of install *)

\* calls of cmd_clean in a behaviour
MaxCleans == 2

\* node_modules exists: init_storage made node_modules/.xmas and
\* node_modules/.bin, or something was installed
NodeModulesExists == storage \/ DOMAIN dirs # {} \/ bins # {} \/ snapshot # {}

\* .xmas exists: init_storage made .xmas/store, or something was stored
XmasExists == storage \/ DOMAIN store # {}

\* remove_dir_all(dir), line 10: the io::Error of a directory that is not there
RemoveDirResult(exists) == IF exists THEN "Ok" ELSE "NotFound"

\* the match, lines 10-14: Ok and NotFound go on to the next directory, any
\* other result is returned
Tolerated(r) == r \in {"Ok", "NotFound"}

\* cmd_clean, lines 8-17: node_modules, then .xmas; package.json and xmas.lock
\* are not touched. It is a process of its own: the downloads the install
\* process had left running ended with that process
Clean ==
    /\ pc = "done"
    /\ Len(cleanLog) < MaxCleans
    /\ LET first == RemoveDirResult(NodeModulesExists)
           second == RemoveDirResult(XmasExists)
       IN  /\ dirs' = NoDirs
           /\ bins' = {}
           /\ snapshot' = {}
           /\ IF Tolerated(first)
              THEN /\ store' = NoStore
                   /\ storage' = FALSE
                   /\ cleanLog' = Append(cleanLog,
                         [run |-> run,
                          result |-> IF Tolerated(second) THEN "Ok" ELSE second])
              ELSE /\ cleanLog' = Append(cleanLog, [run |-> run, result |-> first])
                   /\ UNCHANGED <<store, storage>>
    /\ flight' = ProcessStart(plan).flight
    /\ pump' = {}
    /\ permits' = CLIENT_LIMIT
    /\ UNCHANGED <<plan, manifest, disallow, argVars, lockfile, graph, before,
                   buildStack, whyVars, run, pc, execVars, netCalls, linked,
                   execResult, result, prevResult, scriptVars>>
    /\ UNCHANGED <<vsysVars, permVars, queueVars, ownerVars>>

\* install is run again with the same manifest; init_storage makes the
\* directories again
InstallAgain ==
    /\ pc = "done"
    /\ run < MaxRuns
    /\ run' = run + 1
    /\ prevResult' = IF ScriptFailed THEN "ScriptErr" ELSE result
    /\ storage' = TRUE
    /\ UNCHANGED <<plan, manifest, disallow, argVars, lockfile, graph, before,
                   buildStack, whyVars, crateVars, fsVars>>
    /\ ProcessReset

\* the projects cmd_clean is run in, with or without xmas.lock
InitClean ==
    /\ CratesIdle
    /\ plan \in {PlanSingle, PlanOldVersion}
    /\ manifest = ManifestOf(plan, "Range")
    /\ disallow = TRUE
    /\ store = NoStore
    /\ dirs = NoDirs
    /\ bins = {}
    /\ snapshot = {}
    /\ run = 1
    /\ prevResult = "none"
    /\ ProcessInit
    /\ cmd = "install"
    /\ immutable = FALSE
    /\ registry = RegistryNow
    /\ lockfile \in {NoLockfile} \cup
                    {LockfileNew(g) : g \in ResolutionsOf(RegistryNow, manifest)}
    /\ graph = EmptyGraph
    /\ storage = TRUE
    /\ before = [storage |-> FALSE, lockfile |-> lockfile]
    /\ buildStack = {}
    /\ target = [name |-> "", version |-> 0]
    /\ queue = <<>>
    /\ seen = {}
    /\ expanded = <<>>

NextClean ==
    \/ InstallStart
    \/ \E r \in Roots(plan) : QueueTree(r)
    \/ DropSend
    \/ Recv
    \/ \E n \in DOMAIN plan : TaskInstall(n)
    \/ \E k \in DOMAIN flight : LoaderBegin(k)
    \/ \E k \in DOMAIN flight : LoaderGet(k)
    \/ \E k \in DOMAIN flight : LoaderUnpack(k)
    \/ \E k \in pump : PumpEnd(k)
    \/ SetupBins
    \/ WriteSnapshot
    \/ Clean
    \/ InstallAgain

SpecClean == InitClean /\ [][NextClean]_vars

----------------------------------------------------------------------------
(* Claims *)

CallersOf(i) ==
    {WarmCaller(n) : n \in {m \in warm : id(plan[m]) = i}}
        \cup {TaskCaller(n) : n \in {m \in DOMAIN plan :
                                       task[m].pc # "unspawned" /\ id(plan[m]) = i}}
Rank(sn) == CHOOSE j \in DOMAIN LifecycleScripts : LifecycleScripts[j] = sn
Downloading(k) == flight[k].pc \in {"get", "unpack"}

\* C1, as stated: once the concurrent calls for an identity have their result,
\* exactly one download+unpack has executed for it: one network call.
C1_ExactlyOneNetworkCall ==
    \A i \in Ids(plan) :
        (CallersOf(i) # {} /\ \A c \in CallersOf(i) : Outcome(c) # "none")
            => netCalls[i] = 1

\* C1, amended: however many callers request an identity, the cache runs its
\* loader (the retried download_package) exactly once for it; the loader sends at
\* most one request per attempt, so at most RetryLimit in all, and exactly one
\* when the first attempt succeeds on a store without the entry (the first run).
C1_SingleFlight ==
    \A i \in Ids(plan) :
        /\ LoaderRuns(i) = IF CallersOf(i) = {} THEN 0 ELSE 1
        /\ Cardinality({k \in DOMAIN flight : id(flight[k].dep) = i /\ flight[k].pc = "unpack"}) <= 1
        /\ \A k \in DOMAIN flight :
              id(flight[k].dep) = i =>
                /\ netCalls[i] <= flight[k].attempt
                /\ netCalls[i] <= RetryLimit
                /\ (run = 1 /\ flight[k].pc = "ok" /\ flight[k].attempt = 1) => netCalls[i] = 1

\* four callers of one identity all have the result of a single download
C1_Witness ==
    \E i \in Ids(plan) :
        /\ Cardinality(CallersOf(i)) >= 4
        /\ \A c \in CallersOf(i) : Outcome(c) = "ok"
        /\ netCalls[i] = 1
        /\ LoaderRuns(i) = 1

C3_FailureFailsExecutePlan ==
    (execResult # "none" /\ \E n \in DOMAIN plan : task[n].pc = "failed")
        => execResult = "Err"

AllPlaced == \A n \in DOMAIN plan : Placed(dirs, NestedPath(n), id(plan[n]))

\* C4: when install is about to write the plan snapshot, every node of the plan
\* is placed with its install marker, every script that ran exited with zero and
\* the bins of the roots are set up.
C4_SnapshotOnlyAfterSuccess ==
    pc = "snapshot" =>
        /\ AllPlaced
        /\ \A j \in DOMAIN scriptLog : scriptLog[j].code = 0
        /\ \A r \in Roots(plan) : LinkedCmds(plan[r]) \subseteq bins

\* C5: a run of install that follows a run that returned Ok, with the manifest
\* unchanged, sends no request and hardlinks nothing.
C5_SecondRunIdle ==
    prevResult = "Ok" => (linked = {} /\ \A i \in Ids(plan) : netCalls[i] = 0)

\* C6: every install task works at the nested path of its node (node_modules,
\* then <ancestor>/node_modules per ancestor, then the name), every directory
\* under node_modules holds the files of the node of that position, and in the
\* left-pad example left-pad 1 is at node_modules/left-pad and left-pad 2 at
\* node_modules/foo/node_modules/left-pad, from two store entries.
C6_NestedPlacement ==
    /\ LET spawned == {n \in DOMAIN plan : task[n].pc # "unspawned"}
       IN  /\ \A n \in spawned : TaskPath(n) = NestedPath(n)
           /\ Cardinality({TaskPath(n) : n \in spawned}) = Cardinality(spawned)
    /\ \A d \in DOMAIN dirs :
          \E n \in DOMAIN plan : dirs[d].id = id(plan[n]) /\ d = NestedPath(n)
    /\ (plan = PlanNested /\ \A n \in DOMAIN plan : task[n].pc = "done") =>
          /\ Placed(dirs, <<"node_modules", "left-pad">>, <<"left-pad", 1>>)
          /\ Placed(dirs, <<"node_modules", "foo", "node_modules", "left-pad">>,
                    <<"left-pad", 2>>)
          /\ Complete(store, <<"left-pad", 1>>) /\ Complete(store, <<"left-pad", 2>>)

\* the left-pad example installed in one run
C6_Witness ==
    /\ plan = PlanNested
    /\ linked = DOMAIN plan
    /\ \A n \in DOMAIN plan : task[n].pc = "done"

\* C7: the install task of a child exists only once the placement of its parent
\* is complete: the parent's task is done and its files and marker are in place.
C7_ParentPlacedFirst ==
    \A n \in DOMAIN plan :
        (Len(n) > 1 /\ task[n].pc # "unspawned") =>
            /\ task[Front(n)].pc = "done"
            /\ Placed(dirs, NestedPath(Front(n)), id(plan[Front(n)]))

\* a child has been hardlinked in this run, after its parent
C7_Witness ==
    \E n \in DOMAIN plan :
        Len(n) > 1 /\ task[n].pc = "done" /\ n \in linked /\ Front(n) \in linked

\* C8: while the lifecycle scripts run, no node of the plan is being downloaded
\* or placed.
C8_ScriptsAfterWholePlan ==
    pc \in {"scripts", "inpkg"} =>
        /\ \A k \in DOMAIN flight : ~Downloading(k)
        /\ \A n \in DOMAIN plan : task[n].pc # "waiting"

\* C9: the scripts of one visit of a package run in the order preinstall,
\* install, postinstall, and no script of a node's directory runs after a script
\* of the directory of one of its children.
C9_ScriptOrder ==
    /\ \A i, j \in DOMAIN scriptLog :
          (i < j /\ scriptLog[i].visit = scriptLog[j].visit)
              => Rank(scriptLog[i].script) < Rank(scriptLog[j].script)
    /\ \A n \in DOMAIN plan : \A c \in Children(plan, n) :
          \A i, j \in DOMAIN scriptLog :
              (scriptLog[i].dir = NestedPath(c) /\ scriptLog[j].dir = NestedPath(n))
                  => j < i

\* C10: every package exec_install_scripts visits has its scripts looked up in
\* the directory install_package placed it at.
C10_ScriptsInInstallDir ==
    \A j \in DOMAIN visits : visits[j].dir = NestedPath(visits[j].node)

\* C11: a script that exited with a nonzero code is the last script install ran,
\* and install has returned an error.
C11_NonzeroExitFatal ==
    \A j \in DOMAIN scriptLog :
        scriptLog[j].code # 0 => (j = Len(scriptLog) /\ pc = "done" /\ result = "Err")

\* the step of a failed script changes no file, and the snapshot is written only
\* in a run in which no script failed
ScriptFailureKeepsFiles ==
    /\ (pc = "inpkg" /\ pc' = "done") => UNCHANGED fsVars
    /\ snapshot' # snapshot => \A j \in DOMAIN scriptLog : scriptLog[j].code <= 0

\* in a run that follows a script failure, a node that is placed stays as it is:
\* no request is sent for its id, its store entry and its directory are not
\* written, and hardlink_dir does not run for it
RerunLeavesPlaced ==
    (prevResult = "ScriptErr" /\ run' = run) =>
        \A n \in DOMAIN plan :
            LET path == NestedPath(n)
                i == id(plan[n])
            IN  Placed(dirs, path, i) =>
                    /\ Placed(dirs', path, i)
                    /\ dirs'[path] = dirs[path]
                    /\ store'[i] = store[i]
                    /\ netCalls'[i] = netCalls[i]
                    /\ (n \in linked' => n \in linked)

\* a run that follows a script failure executes the plan, and gets past the
\* scripts only by going through those of every tree
RerunRunsScripts ==
    prevResult = "ScriptErr" =>
        /\ pc = "start" => ~VerifyInstallation(plan, manifest, snapshot)
        /\ pc \in {"bins", "snapshot"} => treesDone = Roots(plan)

\* C12, as stated: a failed script leaves the files and skips nothing but the
\* snapshot write (so the bins of the roots are set up), and the run after it
\* runs the scripts again and downloads and hardlinks nothing for placed nodes.
C12_OnlySnapshotSkipped ==
    /\ [][ScriptFailureKeepsFiles /\ RerunLeavesPlaced]_vars
    /\ [](RerunRunsScripts
          /\ ((pc = "done" /\ ScriptFailed) =>
                 \A r \in Roots(plan) : LinkedCmds(plan[r]) \subseteq bins))

\* C12, amended: a failed script leaves the files and the store as they are and
\* ends install before the bin setup and the snapshot write; the run after it
\* executes the plan and the scripts again and downloads and hardlinks nothing
\* for the nodes that are placed.
C12_ScriptFailureRerun ==
    /\ [][ScriptFailureKeepsFiles /\ RerunLeavesPlaced]_vars
    /\ [](RerunRunsScripts
          /\ (ScriptFailed => pc = "done"))

\* the run after a script failure is at the scripts again with every node
\* placed, nothing downloaded and nothing hardlinked
C12_Witness ==
    /\ prevResult = "ScriptErr"
    /\ pc = "inpkg"
    /\ AllPlaced
    /\ linked = {}
    /\ \A i \in Ids(plan) : netCalls[i] = 0

\* the permits of S that are held: by an attempt between acquire and the
\* response of the GET, or by the stream task of a response
PermitsHeld ==
    Cardinality({k \in DOMAIN flight : flight[k].pc = "get"}) + Cardinality(pump)

\* C13: at every moment the downloads that hold a permit, from before the GET
\* until the stream ended, are at most CLIENT_LIMIT, and the semaphore has the
\* other permits.
C13_BoundedDownloads ==
    /\ PermitsHeld <= CLIENT_LIMIT
    /\ permits = CLIENT_LIMIT - PermitsHeld

\* CLIENT_LIMIT downloads are in flight while the download of another package,
\* requested by several callers, waits for a permit
C13_Witness ==
    /\ PermitsHeld = CLIENT_LIMIT
    /\ \E k \in DOMAIN flight :
          /\ flight[k].pc = "begin"
          /\ ~Complete(store, id(flight[k].dep))
          /\ Cardinality(CallersOf(id(flight[k].dep))) >= 2

\* the flights that are writing into the store entry of an id
Unpacking(i) == {k \in DOMAIN flight : id(flight[k].dep) = i /\ flight[k].pc = "unpack"}

\* C14: a store entry stays once it is created and is not written once its
\* _complete marker exists; at most one unpack writes into the entry of an id
\* at a time, and none does while the marker exists.
C14_StoreWrittenOnce ==
    /\ [](\A i \in Ids(plan) :
            /\ Cardinality(Unpacking(i)) <= 1
            /\ Complete(store, i) =>
                  \A k \in DOMAIN flight :
                      id(flight[k].dep) = i => flight[k].pc \in {"begin", "ok"})
    /\ [][\A i \in DOMAIN store :
            /\ i \in DOMAIN store'
            /\ Complete(store, i) => store'[i] = store[i]]_vars

\* an entry requested by four callers is complete after a failed attempt and a
\* second one, both of the one loader
C14_Witness ==
    \E i \in Ids(plan) :
        /\ Complete(store, i)
        /\ Cardinality(CallersOf(i)) >= 4
        /\ LoaderRuns(i) = 1
        /\ netCalls[i] = 2

\* the step of hardlink_dir for a node: the entry has its marker before it
HardlinkReadsComplete ==
    \A n \in linked' \ linked : Complete(store, id(plan[n]))

\* the marker of an entry appears at the end of a successful unpack of the one
\* flight of its id, and a failed unpack leaves none
MarkerAfterUnpack ==
    \A k \in DOMAIN flight :
        LET i == id(flight[k].dep)
        IN  /\ (i \in DOMAIN store' /\ i \in DOMAIN store
                   /\ store'[i].complete /\ ~store[i].complete)
                => (Unpacking(i) = {k} /\ flight'[k].pc = "ok" /\ store'[i].content = "full")
            /\ (flight[k].pc = "unpack" /\ run' = run /\ flight'[k].pc \in {"begin", "err"})
                => ~Complete(store', i)

\* C15: hardlink_dir runs for a node only when the _complete marker of its store
\* entry exists; the marker is written once per identity, at the end of a
\* successful unpack, so a marked entry is whole and is not unpacked again, and a
\* failed unpack leaves no marker.
C15_MarkerBeforeHardlink ==
    /\ [][HardlinkReadsComplete /\ MarkerAfterUnpack]_vars
    /\ [](\A i \in DOMAIN store :
            Complete(store, i) => (store[i].content = "full" /\ Unpacking(i) = {}))

\* a node was hardlinked in this run from an entry that failed once and was then
\* unpacked and marked
C15_Witness ==
    \E n \in linked :
        /\ Placed(dirs, NestedPath(n), id(plan[n]))
        /\ FlightOf(TaskCaller(n)).attempt = 2
        /\ netCalls[id(plan[n])] = 2

\* the _complete file of the store entry of an id is on disk
MarkerOnDisk(i) == i \in DOMAIN store /\ store[i].complete

\* C16: a call of download_package that finds the _complete marker of its id
\* returns Ok at once: it takes no permit, sends no request and writes nothing
\* into the store.
C16_CompleteSkipsNetwork ==
    [][\A k \in DOMAIN flight :
          (/\ flight[k].pc = "begin"
           /\ MarkerOnDisk(id(flight[k].dep))
           /\ run' = run
           /\ flight'[k] # flight[k])
              => /\ flight'[k].pc = "ok"
                 /\ permits' = permits
                 /\ pump' = pump
                 /\ netCalls' = netCalls
                 /\ store' = store]_vars

\* in a second run the download of an entry marked by the first run has returned
\* Ok to its callers without a request, with every permit free
C16_Witness ==
    /\ run = 2
    /\ \E k \in DOMAIN flight :
          /\ flight[k].pc = "ok"
          /\ MarkerOnDisk(id(flight[k].dep))
          /\ netCalls[id(flight[k].dep)] = 0
          /\ Cardinality(CallersOf(id(flight[k].dep))) >= 2
    /\ \A i \in Ids(plan) : netCalls[i] = 0
    /\ permits = CLIENT_LIMIT

\* the file .installed!<id> is in the directory at a path
InstallMarkerOnDisk(path, i) == path \in DOMAIN dirs /\ i \in dirs[path].markers

\* C17: when install_package gets to a node whose install marker for its id is
\* at its target path, it returns Ok and changes nothing under node_modules:
\* nothing removed, no file linked, no marker written.
C17_MarkerSkipsInstall ==
    [][\A n \in DOMAIN plan :
          (/\ task[n].pc = "waiting"
           /\ run' = run
           /\ task'[n].pc # "waiting"
           /\ InstallMarkerOnDisk(TaskPath(n), id(plan[n])))
              => /\ task'[n].pc = "done"
                 /\ dirs' = dirs
                 /\ linked' = linked]_vars

\* a second run has skipped a node the first run placed and hardlinked one the
\* first run did not place
C17_Witness ==
    /\ run = 2
    /\ \E n, m \in DOMAIN plan :
          /\ task[n].pc = "done"
          /\ n \notin linked
          /\ InstallMarkerOnDisk(NestedPath(n), id(plan[n]))
          /\ m \in linked
          /\ task[m].pc = "done"

\* the step of install_package that ran hardlink_dir for a node: whatever was
\* under the target path before is gone, and after an error there is no marker
HardlinkStep ==
    \A n \in linked' \ linked :
        LET path == TaskPath(n)
        IN  /\ path \in DOMAIN dirs'
            /\ \A d \in DOMAIN dirs' : IsPrefix(path, d) => d = path
            /\ dirs'[path].id = id(plan[n])
            /\ IF task'[n].pc = "done"
               THEN Placed(dirs', path, id(plan[n]))
               ELSE task'[n].pc = "failed" /\ dirs'[path].markers = {}

\* C18: an install marker for an id at a path is only there with every file of
\* the (complete) store entry of that id linked into the path; the step that
\* hardlinks a node removes what was at the path, and writes the marker after
\* the last link, so a failed hardlink leaves none.
C18_MarkerImpliesLinked ==
    /\ [](\A path \in DOMAIN dirs : \A i \in dirs[path].markers :
              /\ dirs[path].id = i
              /\ dirs[path].files = Files
              /\ MarkerOnDisk(i) /\ store[i].content = "full")
    /\ [][HardlinkStep]_vars

\* a second run has placed a node from the store entry the first run left, and
\* a failed hardlink of another node has left some files and no marker
C18_Witness ==
    /\ run = 2
    /\ \E n, m \in linked :
          /\ Placed(dirs, NestedPath(n), id(plan[n]))
          /\ netCalls[id(plan[n])] = 0
          /\ task[m].pc = "failed"
          /\ dirs[NestedPath(m)].files # {}
          /\ dirs[NestedPath(m)].markers = {}

\* every requirement has a tree root of its name whose version is within its
\* range
EveryRequirementMet(p, m) ==
    \A req \in m :
        \E r \in Roots(p) :
            /\ p[r].name = req.name
            /\ req.kind = "Range"
            /\ p[r].version \in req.range

\* C19: Plan::satisfies returns true exactly when every requirement of the
\* manifest has a root of its name at a version within its range; a plan with
\* a@1.2.0 satisfies a: ^1.0.0 and does not satisfy a: ^2.0.0.
C19_SatisfiesExactly ==
    /\ Satisfies(plan, manifest) <=> EveryRequirementMet(plan, manifest)
    /\ result = "true" => EveryRequirementMet(plan, manifest)
    /\ result = "false" => ~EveryRequirementMet(plan, manifest)
    /\ (plan = PlanOf(<<1, 2, 0>>, NoVersion, FALSE) /\ pc = "done") =>
          /\ manifest = {RangeReq("a", <<1, 0, 0>>)} => result = "true"
          /\ manifest = {RangeReq("a", <<2, 0, 0>>)} => result = "false"

\* satisfies has returned true for a plan with a@1.2.0 and b@1.0.0 and the
\* requirements a: ^1.0.0 and b: ^1.0.0
C19_Witness ==
    /\ plan = PlanOf(<<1, 2, 0>>, <<1, 0, 0>>, TRUE)
    /\ manifest = {RangeReq("a", <<1, 0, 0>>), RangeReq("b", <<1, 0, 0>>)}
    /\ pc = "done"
    /\ result = "true"

\* the snapshot file holds a Plan equal to the plan just computed, and that
\* plan meets every requirement of the manifest
SnapshotVerified ==
    /\ snapshot # {}
    /\ snapshot # {Unreadable}
    /\ snapshot = {plan}
    /\ EveryRequirementMet(plan, manifest)

\* C20: install returns without execute_plan, scripts, bin setup and snapshot
\* write only when the snapshot exists, is equal to the computed plan and
\* satisfies the manifest; with a missing, unreadable or different snapshot it
\* goes on to execute the plan.
C20_SkipOnlyIfVerified ==
    /\ [][(pc = "start" /\ pc' # "start") =>
            IF SnapshotVerified
            THEN pc' = "done" /\ result' = "Ok" /\ UNCHANGED <<fsVars, execVars, scriptVars>>
            ELSE pc' = "queue" /\ result' = "none"]_vars
    /\ []((pc = "done" /\ execResult = "none" /\ queued = {}) => SnapshotVerified)
    /\ []((pc # "start" /\ queued = {} /\ snapshot # {plan}) => pc = "queue")

\* install goes on to execute a plan with a tree a -> c although the snapshot
\* holds a plan that satisfies the manifest: the same roots without c
C20_Witness ==
    /\ plan = PlanOf(<<1, 2, 0>>, <<1, 0, 0>>, TRUE)
    /\ snapshot = {PlanOf(<<1, 2, 0>>, <<1, 0, 0>>, FALSE)}
    /\ manifest = {RangeReq("a", <<1, 0, 0>>), RangeReq("b", <<1, 0, 0>>)}
    /\ pc = "queue"

\* install has returned an error of the resolver or of the lockfile
ResolutionFailed ==
    cmd = "install" /\ pc = "done" /\ result \in ResolutionErrors

\* C21: when install returns a resolution or lockfile error, the file system is
\* as the command found it: no directory created, xmas.lock not written,
\* nothing downloaded and nothing placed.
C21_ErrorBeforeMutation ==
    ResolutionFailed =>
        /\ storage = before.storage
        /\ lockfile = before.lockfile
        /\ store = NoStore
        /\ dirs = NoDirs

\* the command has returned the error of graph.append
AppendFailed ==
    pc = "done" /\ result \in {"network", "not found", "no satisfying version"}

\* C22: when graph.append has failed in install or in update, xmas.lock is as
\* the command found it, whatever part of the graph was resolved in memory.
C22_FailedAppendKeepsLockfile ==
    AppendFailed => lockfile = before.lockfile

\* a fetch failed after other requirements had been resolved, over a lockfile
\* of an earlier command that holds other relations
C22_Witness ==
    /\ AppendFailed
    /\ result = "network"
    /\ lockfile.exists
    /\ graph # EmptyGraph
    /\ graph # ToGraph(lockfile)

\* C23: an immutable install never reaches graph.append nor the write of
\* xmas.lock, builds its trees from the graph of the lockfile it found, and
\* leaves xmas.lock as it found it.
C23_ImmutableSkipsResolution ==
    (cmd = "install" /\ immutable) =>
        /\ pc \notin {"append", "write_lock"}
        /\ lockfile = before.lockfile
        /\ pc \in {"build_trees", "unroll", "start"} => graph = LoadGraph(before.lockfile)

\* an immutable install has its plan from the lockfile of an earlier command
C23_Witness ==
    /\ cmd = "install"
    /\ immutable
    /\ pc = "start"
    /\ lockfile.exists
    /\ plan # NoPlan

\* the manifest has a requirement that no dependency of the graph g satisfies
Unsatisfiable(g, m) ==
    \E req \in m : ~ \E d \in Resolved(g) : Satisfied(req, d)

\* C24: an immutable install whose manifest has a requirement the graph of the
\* lockfile cannot satisfy resolves nothing anew and gets no plan: it returns
\* an error (of the resolution, unless package.json or the storage failed
\* before), with xmas.lock untouched and nothing downloaded or placed.
C24_ImmutableUnsatisfiedFails ==
    (cmd = "install" /\ immutable /\ Unsatisfiable(LoadGraph(before.lockfile), manifest)) =>
        /\ pc \notin {"append", "write_lock", "unroll", "start"}
        /\ pc = "done" => result \in {"unresolved", "package.json", "io"}
        /\ lockfile = before.lockfile
        /\ store = NoStore
        /\ dirs = NoDirs

\* the lockfile of an earlier command resolves a to a@1, the manifest now
\* requires a: {2}, and the immutable install has returned the resolution error
C24_Witness ==
    /\ cmd = "install"
    /\ immutable
    /\ lockfile.exists
    /\ Dep("a", 1) \in Resolved(ToGraph(lockfile))
    /\ manifest = {Requirement("a", {2})}
    /\ Dep("a", 2) \in registry
    /\ pc = "done"
    /\ result = "unresolved"

\* C25: the lockfile update has written is that of a resolution of the manifest
\* against the registry from the empty graph: nothing of it comes from the
\* xmas.lock the command found.
C25_UpdateFromEmptyGraph ==
    (cmd = "update" /\ pc = "done" /\ result = "Ok") =>
        \E g \in ResolutionsOf(registry, manifest) : lockfile = LockfileNew(g)

\* update has replaced a lockfile that resolved a: {1, 2} to a@1 by one that
\* resolves it to a@2
C25_Witness ==
    /\ cmd = "update"
    /\ pc = "done"
    /\ result = "Ok"
    /\ manifest = {Requirement("a", {1, 2})}
    /\ before.lockfile.exists
    /\ <<Requirement("a", {1, 2}), Dep("a", 1)>> \in ToGraph(before.lockfile)
    /\ <<Requirement("a", {1, 2}), Dep("a", 2)>> \in ToGraph(lockfile)

\* C26: in the graph of the running command and in the graph of xmas.lock,
\* whatever commands ran before, the dependency of every relation has the name
\* of its requirement and a version within its range.
C26_SatisfactionInvariant ==
    \A r \in graph \cup LoadGraph(lockfile) : Satisfied(r[1], r[2])

\* a second command has appended relations to the graph of the lockfile the
\* first one wrote
C26_Witness ==
    /\ run = 2
    /\ cmd = "install"
    /\ pc = "write_lock"
    /\ LoadGraph(lockfile) # EmptyGraph
    /\ LoadGraph(lockfile) \subseteq graph
    /\ graph # LoadGraph(lockfile)

\* the running command has written xmas.lock from its graph
LockfileWritten ==
    \/ /\ cmd = "install"
       /\ ~immutable
       /\ pc \in {"build_trees", "unroll", "start"}
    \/ /\ cmd = "update"
       /\ pc = "done"
       /\ result = "Ok"

BranchesAcyclic ==
    \A n \in DOMAIN plan : Cardinality(OnBranch(plan, n)) = Len(n)

BuildingTrees == pc \in {"build_trees", "unroll"}

\* C28: build_trees comes to an end, with the plan or with an error, and no
\* branch of its trees holds a package twice, so that no tree is deeper than
\* the number of packages in the graph.
C28_BuildTreesTerminates ==
    /\ [](BranchesAcyclic /\ \A n \in DOMAIN plan : Len(n) <= Cardinality(Resolved(graph)))
    /\ BuildingTrees ~> ~BuildingTrees

\* the trees of a graph in which a and b require each other: b is unrolled
\* under a, and a is not unrolled again under b
C28_Witness ==
    /\ pc = "start"
    /\ manifest = {Requirement("a", {1, 2})}
    /\ <<Requirement("b", {1}), Dep("b", 1)>> \in graph
    /\ ResolveReq(graph, Requirement("a", {1, 2})) = {plan[<<"a">>]}
    /\ DOMAIN plan = {<<"a">>, <<"a", "b">>}

\* C29: the walk of cmd_why ends, with Ok or with an error; no pair gets past
\* the seen guard twice, and the pairs whose requesters are pushed on the queue
\* are resolved packages of the graph, so that there are at most as many of
\* them as the graph has packages.
C29_WhyWalkTerminates ==
    /\ [](/\ \A j, k \in DOMAIN expanded : expanded[j] = expanded[k] => j = k
          /\ LET pushed == {j \in DOMAIN expanded : RequiredBy(graph, expanded[j]) # {}}
             IN  /\ \A j \in pushed : expanded[j] \in {id(d) : d \in Resolved(graph)}
                 /\ Cardinality(pushed) <= Cardinality(Resolved(graph)))
    /\ <>(pc = "done")

\* the walk from b in a graph where a and b require each other has come back
\* to b, found it seen, and ended
C29_Witness ==
    /\ pc = "done"
    /\ result = "Ok"
    /\ target.name = "b"
    /\ Len(expanded) = 2
    /\ expanded[1][1] = "b"
    /\ expanded[2][1] = "a"
    /\ "b" \in {req.name : req \in RequiredBy(graph, expanded[2])}

\* setup_bins has just returned Ok
BinsSetUp == pc = "snapshot"

\* C30, as stated: once setup_bins has succeeded, every command of every
\* dependency of the plan, at any depth, has an entry in node_modules/.bin.
C30_EveryDependencyLinked ==
    BinsSetUp => \A n \in DOMAIN plan : BinCmds(plan[n]) \subseteq bins

\* C30, amended: once setup_bins has succeeded, node_modules/.bin holds the
\* commands of the tree roots whose name has no '/', and (having been empty)
\* nothing else.
C30_RootCommandsLinked ==
    BinsSetUp =>
        bins = {c \in UNION {BinCmds(plan[r]) : r \in Roots(plan)} : ~HasSlash(c)}

\* the root b has its command b linked and its command scope/b not, and the
\* b below a adds nothing
C30_Witness ==
    /\ BinsSetUp
    /\ plan = PlanShared
    /\ bins = {"b"}

\* C31: through the table of read_only() no call changes the file system,
\* neither a call of an entry of the table nor a call on a handle that its
\* open returned
C31_ReadOnlyNeverModifies == [][vtable = "read_only" => disk' = disk]_vars

\* the characters of a name before its i-th, and from its i-th on
Before(h, i) == SubSeq(h, 1, i - 1)

\* h is a subdomain of the domain s: some labels, a dot, then s
IsSubdomain(h, s) ==
    \E i \in 2..Len(h) : h[i] = Dot /\ From(h, i) = s /\ Before(h, i) \in Hosts

\* the host equals an item of the list, or is a subdomain of the suffix of an
\* item "*.suffix", or is that suffix
Listed(items, h) ==
    \E i \in 1..Len(items) :
        \/ items[i] = h
        \/ /\ StartsWith(items[i], <<Star, Dot>>)
           /\ IsSubdomain(h, From(items[i], 2)) \/ h = From(items[i], 2)

\* C32: check_net with WhiteList(L) allows a host exactly when the host is an
\* item of L or matches a wildcard item of L, with BlackList(L) exactly when
\* WhiteList(L) denies it; the default permissions deny every host and
\* allow_all allows every host
C32_CheckNet ==
    netResult # "none" =>
        /\ net.kind = "WhiteList" => (netResult = "true" <=> Listed(net.items, host))
        /\ net.kind = "BlackList" => (netResult = "true" <=> ~Listed(net.items, host))
        /\ net = DefaultList => netResult = "false"
        /\ net = AllowAllList => netResult = "true"

\* a white list allowed a host for a wildcard item only, and denied another
\* name that ends in the letters of the suffix
C32_Witness ==
    /\ net = [kind |-> "WhiteList", items |-> <<Str2(Star, Dot) \o <<"a">>, <<"b">> >>]
    /\ host = <<"b", Dot, "a">>
    /\ netResult = "true"

\* execute_plan has returned in this run
ExecuteReturned == execResult # "none"

\* the install tasks that were spawned and have not finished
RunningTasks == {n \in DOMAIN plan : task[n].pc = "waiting"}

\* C33: execute_plan terminates, and when it has returned no install task is
\* running and no Sender is left: the receive loop ends only after every
\* install task, the children queued by other tasks included, has finished
C33_ExecutePlanTerminates ==
    /\ [](ExecuteReturned => RunningTasks = {} /\ senders = 0)
    /\ (pc = "queue") ~> ExecuteReturned

\* execute_plan returned after a task that another task had queued finished
C33_Witness ==
    /\ ExecuteReturned
    /\ \E n \in DOMAIN plan : Len(n) > 1 /\ task[n].pc \in {"done", "failed"}

\* the download of a dependency waits for a permit (or has yet to start)
WaitsForPermit(dep) == dep \in DOMAIN flight /\ flight[dep].pc = "begin"

\* the dependencies of the plans
PlanDeps == UNION {{p[n] : n \in DOMAIN p} : p \in Plans}

\* C34: every permit that download_package acquired is either held by a download
\* in progress or back in the semaphore, so with no download in progress all
\* CLIENT_LIMIT permits are available; every stream task gives its permit back
\* and every download that waits for a permit gets one
C34_PermitsNeverLeak ==
    /\ [](PermitsHeld = 0 => permits = CLIENT_LIMIT)
    /\ \A dep \in PlanDeps : (dep \in pump) ~> (dep \notin pump)
    /\ \A dep \in PlanDeps : WaitsForPermit(dep) ~> ~WaitsForPermit(dep)

\* all downloads are over, one of them failed at every attempt and another
\* succeeded at its second attempt, and every permit is back
C34_Witness ==
    /\ permits = CLIENT_LIMIT
    /\ pump = {}
    /\ \A k \in DOMAIN flight : flight[k].pc \in {"ok", "err"}
    /\ \E k \in DOMAIN flight :
          flight[k].pc = "err" /\ store[id(flight[k].dep)].content = "incomplete"
    /\ \E k \in DOMAIN flight : flight[k].pc = "ok" /\ flight[k].attempt = 2

\* the paths below a path
Below(ds, path) == {q \in DOMAIN ds : IsPrefix(path, q) /\ q # path}

HasTag(m) == \E req \in m : req.kind # "Range"

\* C36: with a requirement that is not a range in the manifest, a dist-tag for
\* one, Plan::satisfies is false although a tree root has the name, and
\* verify_installation is not true; install then never skips: it goes from its
\* start into execute_plan, and when it returns Ok it has executed the plan,
\* been through the scripts of every tree (unless scripts are disallowed) and
\* written the snapshot
C36_TagNeverVerified ==
    /\ [](HasTag(manifest) =>
            /\ {req.name : req \in manifest} \subseteq {plan[r].name : r \in Roots(plan)}
            /\ ~Satisfies(plan, manifest)
            /\ ~VerifyInstallation(plan, manifest, snapshot))
    /\ [][HasTag(manifest) /\ pc = "start" => pc' = "queue"]_vars
    /\ [](HasTag(manifest) /\ pc = "done" /\ result = "Ok" =>
            /\ execResult = "Ok"
            /\ ~disallow => treesDone = Roots(plan)
            /\ snapshot = {plan})

\* the second install of a project whose manifest has dist-tags returned Ok
\* after the first had: it executed the plan and ran the scripts again, over an
\* installation that was complete and had its snapshot
C36_Witness ==
    /\ HasTag(manifest)
    /\ run = 2
    /\ prevResult = "Ok"
    /\ pc = "done"
    /\ result = "Ok"
    /\ execResult = "Ok"
    /\ visits # <<>>
    /\ linked = {}

\* the pushes that pushed their task after a call of listen had begun and have
\* returned
PushedSinceListen == {t \in Pushers : pushPc[t].pc = "done" /\ pushPc[t].seen > 0}

\* C37: no wake-up is lost: once listen has stored its waker and a push that
\* pushed its task after that call of listen began has returned, the waker of
\* that call (or of a later one) has been woken; and no waker is woken twice
C37_NoLostWakeup ==
    /\ listenPc = "idle" =>
          \A t \in PushedSinceListen : \E i \in DOMAIN woken : woken[i] >= pushPc[t].seen
    /\ \A i, j \in DOMAIN woken : woken[i] = woken[j] => i = j

\* the threads that have pushed their task
Pushed == {t \in Pushers : pushPc[t].pc # "idle"}

\* how many times task t occurs in s
Count(s, t) == Cardinality({i \in DOMAIN s : s[i] = t})

\* C38: no task is lost or duplicated: a pushed task is exactly once in the
\* queue, in the batch being polled, among the pending tasks of the poll or
\* among the completed ones, and after a poll exactly once in the queue or among
\* the completed ones; poll returns Empty only when it completed nothing and left
\* the queue empty, Done only when it completed a task and left the queue empty,
\* Progress only when it completed a task and tasks remain, Pending only when it
\* completed none and tasks remain
C38_PollKeepsTasks ==
    /\ \A t \in Pushers :
          Count(tasks, t) + Count(worker, t) + Count(pendingVec, t) + Count(completed, t)
             = IF t \in Pushed THEN 1 ELSE 0
    /\ pollPc = "idle" =>
          \A t \in Pushed : Count(tasks, t) + Count(completed, t) = 1
    /\ pollResult.value = "Empty" => pollResult.ready = 0 /\ pollResult.left = <<>>
    /\ pollResult.value = "Done" => pollResult.ready > 0 /\ pollResult.left = <<>>
    /\ pollResult.value = "Progress" => pollResult.ready > 0 /\ pollResult.left # <<>>
    /\ pollResult.value = "Pending" => pollResult.ready = 0 /\ pollResult.left # <<>>

\* a poll has returned Progress: it completed task 1 and left task 2, which was
\* not ready, in the queue with task 3
C38_Witness ==
    /\ pollPc = "idle"
    /\ pollResult.value = "Progress"
    /\ pollResult.ready = 1
    /\ completed = <<1>>
    /\ pollResult.left = <<3, 2>>

\* every clone that was made has been dropped
AllDropped == \A c \in Clones : owners[c] \in {"none", "dropped"}

\* C39: drop_context is called exactly once among all the clones of a
\* ContextOwner: never twice, and once when every clone has been dropped
C39_DropContextOnce ==
    /\ dropCalls <= 1
    /\ AllDropped => dropCalls = 1

\* cmd_clean ran between the previous run of install and this one
CleanedBeforeRun == \E i \in DOMAIN cleanLog : cleanLog[i].run = run - 1

\* C40: cmd_clean returns Ok, also when the directories are already absent, and
\* leaves no store entry, no installed directory or marker, no bin and no plan
\* snapshot, with package.json and xmas.lock as they were; the install that
\* follows it and succeeds has downloaded every package and placed every node
C40_CleanRemovesInstallation ==
    /\ [][Len(cleanLog') > Len(cleanLog) =>
             /\ Last(cleanLog').result = "Ok"
             /\ store' = NoStore /\ dirs' = NoDirs /\ bins' = {} /\ snapshot' = {}
             /\ ~storage'
             /\ manifest' = manifest /\ lockfile' = lockfile /\ plan' = plan]_vars
    /\ [](pc = "done" /\ result = "Ok" /\ CleanedBeforeRun =>
             /\ \A i \in Ids(plan) : netCalls[i] >= 1
             /\ linked = DOMAIN plan)

====
